---- MODULE Spec2Model ----
(***************************************************************************)
(* Valuation and productivity analytics of the thesis dashboard:           *)
(* data/calculations.py, the row and productivity computations of          *)
(* components/dat_table.py and components/other_dats.py, and the stock     *)
(* snapshot of data/fetchers.py that feeds them.                           *)
(*                                                                         *)
(* Numbers are exact rationals [k |-> "num", n, d] in lowest terms with    *)
(* d > 0; Python's None, float('inf') and a raised exception are values of *)
(* the same record shape with another tag k.                               *)
(***************************************************************************)
EXTENDS Integers, Naturals, Sequences, FiniteSets, TLC

\* call: the entry point invoked, with its arguments;
\* pc: "called" while it runs, "returned" once it has run to completion;
\* ret: what the invocation returned (or the exception it raised);
\* attempt: the loop variable of _fetch_from_yahoo;
\* io: the requests sent to the stock sources and the sleeps between them,
\* in the order fetch_stock_data made them; the records log_verification
\* saved, in the order of its calls;
\* validation_log: the content of validation_log.json (no file: empty);
\* now: the day datetime.now() reads
VARIABLES call, pc, ret, attempt, io, validation_log, now

vars == <<call, pc, ret, attempt, io, validation_log, now>>

----------------------------------------------------------------------------
(* Bounds of the explored inputs                                           *)

MaxVal == 2
MaxCompanies == 2
MaxPositions == 2

Vals == {-1} \cup (0 .. MaxVal)

NonNeg == 0 .. MaxVal

Pos == 1 .. MaxVal

----------------------------------------------------------------------------
(* Python values                                                           *)

AbsInt(i) == IF i < 0 THEN -i ELSE i

RECURSIVE GCD(_, _)
GCD(a, b) == IF b = 0 THEN a ELSE GCD(b, a % b)

Rat(n, d) ==
    LET g == GCD(AbsInt(n), AbsInt(d))
        s == IF d < 0 THEN -1 ELSE 1
    IN  [k |-> "num", n |-> (s * n) \div g, d |-> (s * d) \div g]

Num(i) == Rat(i, 1)

None == [k |-> "None", n |-> 0, d |-> 1]

Inf == [k |-> "inf", n |-> 1, d |-> 1]

TypeError == [k |-> "TypeError", n |-> 0, d |-> 1]

ZeroDivisionError == [k |-> "ZeroDivisionError", n |-> 0, d |-> 1]

IsNum(x) == x.k = "num"

IsNone(x) == x.k = "None"

ValueError == [k |-> "ValueError", n |-> 0, d |-> 1]

IsExc(x) == x.k \in {"TypeError", "ZeroDivisionError", "ValueError"}

\* bool(x) of a number or None: None and 0 are falsy
Truthy(x) == IsNum(x) /\ x.n # 0

\* comparisons of two numbers
Lt(a, b) == a.n * b.d < b.n * a.d

Le(a, b) == a.n * b.d <= b.n * a.d

Gt(a, b) == Lt(b, a)

Ge(a, b) == Le(b, a)

\* arithmetic: an exception in an operand propagates, None is a TypeError
Arith(a, b, r) ==
    IF IsExc(a) THEN a
    ELSE IF IsExc(b) THEN b
    ELSE IF ~IsNum(a) \/ ~IsNum(b) THEN TypeError
    ELSE r

PyMul(a, b) == Arith(a, b, Rat(a.n * b.n, a.d * b.d))

PyAdd(a, b) == Arith(a, b, Rat(a.n * b.d + b.n * a.d, a.d * b.d))

PySub(a, b) == Arith(a, b, Rat(a.n * b.d - b.n * a.d, a.d * b.d))

PyDiv(a, b) ==
    Arith(a, b, IF b.n = 0 THEN ZeroDivisionError ELSE Rat(a.n * b.d, a.d * b.n))

PyAbs(a) == IF IsNum(a) THEN Rat(AbsInt(a.n), a.d) ELSE IF IsExc(a) THEN a ELSE TypeError

\* x or 0
OrZero(x) == IF Truthy(x) THEN x ELSE Num(0)

----------------------------------------------------------------------------
(* data/calculations.py: valuation                                         *)

calculate_nav(eth_holdings, eth_price) == PyMul(eth_holdings, eth_price)

\* a slip the guard could have: only a missing share count is caught
calculate_nav_per_share_NoneOnly(eth_holdings, eth_price, shares_outstanding) ==
    IF IsNone(shares_outstanding) THEN None
    ELSE PyDiv(calculate_nav(eth_holdings, eth_price), shares_outstanding)

calculate_nav_per_share(eth_holdings, eth_price, shares_outstanding) ==
    IF ~Truthy(shares_outstanding) \/ Le(shares_outstanding, Num(0)) THEN None
    ELSE PyDiv(calculate_nav(eth_holdings, eth_price), shares_outstanding)

\* a slip the guard could have: a negative nav_per_share passes
calculate_nav_discount_FalsyOnly(stock_price, nav_per_share) ==
    IF ~Truthy(nav_per_share) THEN None
    ELSE PyDiv(PySub(stock_price, nav_per_share), nav_per_share)

\* a slip the ratio could have: the difference taken the other way round
calculate_nav_discount_Inverted(stock_price, nav_per_share) ==
    IF ~Truthy(nav_per_share) \/ Le(nav_per_share, Num(0)) THEN None
    ELSE PyDiv(PySub(nav_per_share, stock_price), nav_per_share)

calculate_nav_discount(stock_price, nav_per_share) ==
    IF ~Truthy(nav_per_share) \/ Le(nav_per_share, Num(0)) THEN None
    ELSE PyDiv(PySub(stock_price, nav_per_share), nav_per_share)

calculate_eth_per_share(eth_holdings, shares_outstanding) ==
    IF ~Truthy(shares_outstanding) \/ Le(shares_outstanding, Num(0)) THEN None
    ELSE PyDiv(eth_holdings, shares_outstanding)

calculate_drawdown(current_price, high_price) ==
    IF Le(high_price, Num(0)) THEN Num(0)
    ELSE PyDiv(PySub(current_price, high_price), high_price)

----------------------------------------------------------------------------
(* data/calculations.py: phase classifier                                  *)

TransitionBand == Rat(1, 10)

TerminalPE == Num(20)

\* a slip the rule order could have: the transition rule tried first
determine_dat_phase_TransitionFirst(nav_discount, has_dividend, pe_ratio, ops_cost_ratio) ==
    IF has_dividend \/ (Truthy(nav_discount) /\ Lt(PyAbs(nav_discount), TransitionBand))
    THEN "transition"
    ELSE IF has_dividend /\ Truthy(pe_ratio) /\ Gt(pe_ratio, TerminalPE)
    THEN "terminal"
    ELSE "accumulation"

\* a slip the fall-through could have: an unknown discount read as no discount
determine_dat_phase_NoneAsZero(nav_discount, has_dividend, pe_ratio, ops_cost_ratio) ==
    IF has_dividend /\ Truthy(pe_ratio) /\ Gt(pe_ratio, TerminalPE)
    THEN "terminal"
    ELSE IF has_dividend \/ Lt(PyAbs(OrZero(nav_discount)), TransitionBand)
    THEN "transition"
    ELSE "accumulation"

determine_dat_phase(nav_discount, has_dividend, pe_ratio, ops_cost_ratio) ==
    IF has_dividend /\ Truthy(pe_ratio) /\ Gt(pe_ratio, TerminalPE)
    THEN "terminal"
    ELSE IF has_dividend \/ (Truthy(nav_discount) /\ Lt(PyAbs(nav_discount), TransitionBand))
    THEN "transition"
    ELSE "accumulation"

----------------------------------------------------------------------------
(* data/calculations.py: the health evaluator                              *)

\* a returned status / a raised exception
Status(status) == [exc |-> None, status |-> status]

StatusRaised(exc) == [exc |-> exc, status |-> "raised"]

\* a slip the evaluator could have: a value on a threshold falls to the
\* worse side
get_health_status_Strict(value, warning_threshold, critical_threshold, higher_is_better) ==
    IF ~IsNum(value) THEN StatusRaised(TypeError)
    ELSE IF higher_is_better
    THEN IF Gt(value, warning_threshold) THEN Status("healthy")
         ELSE IF Gt(value, critical_threshold) THEN Status("warning")
         ELSE Status("critical")
    ELSE IF Lt(value, warning_threshold) THEN Status("healthy")
         ELSE IF Lt(value, critical_threshold) THEN Status("warning")
         ELSE Status("critical")

\* a comparison of None with a number raises TypeError
get_health_status(value, warning_threshold, critical_threshold, higher_is_better) ==
    IF ~IsNum(value) THEN StatusRaised(TypeError)
    ELSE IF higher_is_better
    THEN IF Ge(value, warning_threshold) THEN Status("healthy")
         ELSE IF Ge(value, critical_threshold) THEN Status("warning")
         ELSE Status("critical")
    ELSE IF Le(value, warning_threshold) THEN Status("healthy")
         ELSE IF Le(value, critical_threshold) THEN Status("warning")
         ELSE Status("critical")

\* the thresholds written into check_precondition_health
DominanceHealthy == Rat(1, 2)

DominanceWarning == Rat(2, 5)

YieldHealthy == Rat(3, 100)

YieldWarning == Rat(1, 50)

DeficitHealthy == Num(-3)

DeficitWarning == Num(0)

\* the "status" of the three entries of the result
check_precondition_health(eth_dominance, eth_staking_apy, deficit_gdp_ratio) ==
    [eth_dominance |->
        IF ~IsNone(eth_dominance)
        THEN IF Ge(eth_dominance, DominanceHealthy) THEN "healthy"
             ELSE IF Ge(eth_dominance, DominanceWarning) THEN "warning"
             ELSE "critical"
        ELSE "unknown",
     eth_yield |->
        IF ~IsNone(eth_staking_apy)
        THEN IF Ge(eth_staking_apy, YieldHealthy) THEN "healthy"
             ELSE IF Ge(eth_staking_apy, YieldWarning) THEN "warning"
             ELSE "critical"
        ELSE "unknown",
     macro_backdrop |->
        IF ~IsNone(deficit_gdp_ratio)
        THEN IF Lt(deficit_gdp_ratio, DeficitHealthy) THEN "healthy"
             ELSE IF Lt(deficit_gdp_ratio, DeficitWarning) THEN "warning"
             ELSE "critical"
        ELSE "unknown"]

\* what a fetcher of an indicator returned: its value, or an "error" key
Fetched(value) == [error |-> FALSE, value |-> value]

FetchFailed(value) == [error |-> TRUE, value |-> value]

\* data.get(key) if "error" not in data else None
IndicatorOf(data) == IF data.error THEN None ELSE data.value

\* components/home.py: the indicators handed to check_precondition_health
render_precondition_health(defi_data, staking_data, fred_api_key, deficit_data) ==
    LET eth_dominance == IndicatorOf(defi_data)
        eth_apy == IndicatorOf(staking_data)
        deficit_gdp == IF fred_api_key THEN IndicatorOf(deficit_data) ELSE None
    IN  [eth_dominance |-> eth_dominance, eth_apy |-> eth_apy,
         deficit_gdp |-> deficit_gdp,
         health |-> check_precondition_health(eth_dominance, eth_apy, deficit_gdp)]

----------------------------------------------------------------------------
(* data/fetchers.py: the stock snapshot                                    *)

\* the dict a source returns when it has a price
Snapshot(source, price, shares, pe) ==
    [source |-> source, price |-> price, shares_outstanding |-> shares,
     pe_ratio |-> pe, error |-> FALSE]

\* the source returned None
NoResult ==
    [source |-> "none", price |-> None, shares_outstanding |-> None,
     pe_ratio |-> None, error |-> FALSE]

\* a slip the marker could have: it carries the last known share count
Unavailable_StaleShares ==
    [source |-> "unavailable", price |-> None, shares_outstanding |-> Num(1),
     pe_ratio |-> None, error |-> TRUE]

\* the marker returned when every source failed; it has no shares_outstanding
\* or pe_ratio key, which .get() reads as None
Unavailable ==
    [source |-> "unavailable", price |-> None, shares_outstanding |-> None,
     pe_ratio |-> None, error |-> TRUE]

\* shares_outstanding / trailingPE as an upstream quote reports them
QuoteShares == {None, Num(-1), Num(0)} \cup {Num(i) : i \in Pos}

QuotePE == {None, Num(25)}

YahooResults ==
    {NoResult} \cup
    {Snapshot("yahoo", Num(p), s, pe) : p \in Pos, s \in QuoteShares, pe \in QuotePE}

FmpResults ==
    {NoResult} \cup
    {Snapshot("fmp", Num(p), s, None) : p \in Pos, s \in QuoteShares}

AlphaVantageResults ==
    {NoResult} \cup {Snapshot("alpha_vantage", Num(p), None, None) : p \in Pos}

\* result and result.get("price")
HasPrice(result) == result.source # "none" /\ Truthy(result.price)

fetch_stock_data(yahoo, fmp, alpha_vantage) ==
    IF HasPrice(yahoo) THEN yahoo
    ELSE IF HasPrice(fmp) THEN fmp
    ELSE IF HasPrice(alpha_vantage) THEN alpha_vantage
    ELSE Unavailable

FetchedSnapshots ==
    {fetch_stock_data(y, f, a) :
        y \in YahooResults, f \in FmpResults, a \in AlphaVantageResults}

----------------------------------------------------------------------------
(* config.py: the company registries                                       *)

\* one entry of DAT_COMPANIES; days_active is (today - dat_start_date).days
\* (None when dat_start_date does not parse)
EthCompany(ticker, holdings, burn, premium, days) ==
    [ticker |-> ticker, eth_holdings |-> Num(holdings), staking_pct |-> Rat(1, 2),
     quarterly_burn_usd |-> Num(burn), eth_from_premium |-> Num(premium),
     days_active |-> days]

\* the first exception among the values, None if there is none
RECURSIVE FirstExc(_)
FirstExc(vs) ==
    IF vs = <<>> THEN None
    ELSE IF IsExc(Head(vs)) THEN Head(vs)
    ELSE FirstExc(Tail(vs))

----------------------------------------------------------------------------
(* components/dat_table.py: build_dat_dataframe                            *)

\* a slip the burn conversion could have: only a zero price is caught
AnnualBurnTokens_NonZeroGuard(quarterly_burn_usd, asset_price) ==
    IF asset_price.n # 0 THEN PyDiv(PyMul(quarterly_burn_usd, Num(4)), asset_price)
    ELSE Num(0)

\* annual_burn_usd / price if price > 0 else 0
AnnualBurnTokens(quarterly_burn_usd, asset_price) ==
    IF Gt(asset_price, Num(0)) THEN PyDiv(PyMul(quarterly_burn_usd, Num(4)), asset_price)
    ELSE Num(0)

\* the body of the loop: one row of the frame
DatRow(company, stock, eth_price, staking_apy) ==
    LET eth_holdings == company.eth_holdings
        staking_pct == company.staking_pct
        quarterly_burn_usd == company.quarterly_burn_usd
        stock_price == OrZero(stock.price)
        shares_outstanding == OrZero(stock.shares_outstanding)
        nav == calculate_nav(eth_holdings, eth_price)
        nav_per_share == calculate_nav_per_share(eth_holdings, eth_price, shares_outstanding)
        nav_discount == IF Truthy(nav_per_share)
                        THEN calculate_nav_discount(stock_price, nav_per_share)
                        ELSE IF IsExc(nav_per_share) THEN nav_per_share ELSE None
        eth_per_share == calculate_eth_per_share(eth_holdings, shares_outstanding)
        phase == determine_dat_phase(nav_discount, FALSE, stock.pe_ratio, None)
        staked_eth == PyMul(eth_holdings, staking_pct)
        annual_yield_eth == PyMul(staked_eth, staking_apy)
        annual_burn_usd == PyMul(quarterly_burn_usd, Num(4))
        annual_burn_eth == AnnualBurnTokens(quarterly_burn_usd, eth_price)
        net_annual_eth == PySub(annual_yield_eth, annual_burn_eth)
    IN  [ticker |-> company.ticker,
         eth_holdings |-> eth_holdings,
         staking_pct |-> staking_pct,
         staked_eth |-> staked_eth,
         annual_yield_eth |-> annual_yield_eth,
         quarterly_burn_usd |-> quarterly_burn_usd,
         annual_burn_usd |-> annual_burn_usd,
         annual_burn_eth |-> annual_burn_eth,
         net_annual_eth |-> net_annual_eth,
         nav |-> nav,
         stock_price |-> stock_price,
         shares_outstanding |-> shares_outstanding,
         nav_per_share |-> nav_per_share,
         nav_discount |-> nav_discount,
         eth_per_share |-> eth_per_share,
         phase |-> phase]

RowExc(row) ==
    FirstExc(<<row.nav, row.nav_per_share, row.nav_discount, row.eth_per_share,
               row.annual_yield_eth, row.annual_burn_eth, row.net_annual_eth>>)

\* companies: DAT_COMPANIES in insertion order; stocks[i]: what fetch_stock_data
\* returned for companies[i]
build_dat_dataframe(companies, stocks, eth_price, staking_apy) ==
    LET rows == [i \in 1 .. Len(companies) |->
                    DatRow(companies[i], stocks[i], eth_price, staking_apy)]
        excs == [i \in 1 .. Len(companies) |-> RowExc(rows[i])]
    IN  IF IsExc(FirstExc(excs)) THEN [exc |-> FirstExc(excs), rows |-> <<>>]
        ELSE [exc |-> None, rows |-> rows]

----------------------------------------------------------------------------
(* components/dat_detail.py: render_dat_detail_page, the metrics it shows  *)

\* eth_fetched: the "price" of fetch_eth_price(); yahoo, fmp, alpha_vantage:
\* what each stock source answers for the ticker
render_dat_detail_page(company, eth_fetched, yahoo, fmp, alpha_vantage) ==
    LET eth_price == OrZero(eth_fetched)
        stock == fetch_stock_data(yahoo, fmp, alpha_vantage)
        stock_price == OrZero(stock.price)
        shares_outstanding == OrZero(stock.shares_outstanding)
        eth_holdings == company.eth_holdings
        nav == calculate_nav(eth_holdings, eth_price)
        nav_per_share == calculate_nav_per_share(eth_holdings, eth_price, shares_outstanding)
        nav_discount == IF Truthy(nav_per_share)
                        THEN calculate_nav_discount(stock_price, nav_per_share)
                        ELSE IF IsExc(nav_per_share) THEN nav_per_share ELSE None
        eth_per_share == calculate_eth_per_share(eth_holdings, shares_outstanding)
        phase == determine_dat_phase(nav_discount, FALSE, stock.pe_ratio, None)
    IN  [stock |-> stock,
         stock_price |-> stock_price,
         nav |-> nav,
         nav_per_share |-> nav_per_share,
         nav_discount |-> nav_discount,
         eth_per_share |-> eth_per_share,
         phase |-> phase]

----------------------------------------------------------------------------
(* components/dat_table.py: render_dat_table, the productivity table       *)

ETF_STAKING_YIELD == Rat(4, 125)

\* a slip the age could have: no floor at one month
MonthsActive_NoFloor(days) == Rat(days.n * 25, 761)

\* (today - dat_start).days / 30.44, floored at one month
MonthsActive(days) ==
    LET months == Rat(days.n * 25, 761)
    IN  IF Ge(Num(1), months) THEN Num(1) ELSE months

\* eth_from_premium / years_active if years_active > 0 else 0
AnnualizedPremium(from_premium, years_active) ==
    IF Gt(years_active, Num(0)) THEN PyDiv(from_premium, years_active) ELSE Num(0)

\* a slip the total could have: the net of yield and burn, premium left out
total_annual_eth_NoPremium(annual_yield_eth, annual_burn_eth, annualized_premium_eth) ==
    PySub(annual_yield_eth, annual_burn_eth)

total_annual_eth(annual_yield_eth, annual_burn_eth, annualized_premium_eth) ==
    PyAdd(PySub(annual_yield_eth, annual_burn_eth), annualized_premium_eth)

net_rate_eth(total_annual_eth_, eth_holdings) ==
    IF Gt(eth_holdings, Num(0)) THEN PyDiv(total_annual_eth_, eth_holdings) ELSE Num(0)

\* a slip the flag could have: break-even counted as accretive
is_accretive_eth_OrEqual(total_annual_eth_) == Ge(total_annual_eth_, Num(0))

is_accretive_eth(total_annual_eth_) == Gt(total_annual_eth_, Num(0))

\* the body of the productivity loop, for one row of the frame
EthProductivity(row, company_config, staking_apy) ==
    LET eth_holdings == row.eth_holdings
        annual_yield_eth == row.annual_yield_eth
        annual_burn_eth == row.annual_burn_eth
        eth_from_premium == company_config.eth_from_premium
        months_active == MonthsActive(company_config.days_active)
        years_active == PyDiv(months_active, Num(12))
        annualized_premium_eth == AnnualizedPremium(eth_from_premium, years_active)
        total == total_annual_eth(annual_yield_eth, annual_burn_eth, annualized_premium_eth)
        net_rate == net_rate_eth(total, eth_holdings)
    IN  [ticker |-> row.ticker,
         holdings |-> eth_holdings,
         yield |-> annual_yield_eth,
         burn |-> annual_burn_eth,
         quarterly_burn |-> row.quarterly_burn_usd,
         premium |-> annualized_premium_eth,
         total |-> total,
         net_rate |-> net_rate,
         yield_multiple |-> IF Gt(staking_apy, Num(0)) THEN PyDiv(net_rate, staking_apy)
                            ELSE Num(0),
         vs_etf |-> IF Gt(ETF_STAKING_YIELD, Num(0))
                    THEN PyDiv(net_rate, ETF_STAKING_YIELD) ELSE Num(0),
         months_active |-> months_active,
         years_active |-> years_active,
         from_premium |-> eth_from_premium,
         is_miner |-> FALSE,
         accretive |-> is_accretive_eth(total)]

RECURSIVE SumOf(_)
SumOf(vs) == IF vs = <<>> THEN Num(0) ELSE PyAdd(Head(vs), SumOf(Tail(vs)))

\* prod_df["Accretive"].sum()
AccretiveCount(records) == Cardinality({i \in DOMAIN records : records[i].accretive})

\* sort_values(total, ascending=False): the orders it can leave the records in
DescendingOrders(records) ==
    {order \in [DOMAIN records -> DOMAIN records] :
        /\ \A i, j \in DOMAIN records : order[i] = order[j] => i = j
        /\ \A i, j \in DOMAIN records :
            i < j => Ge(records[order[i]].total, records[order[j]].total)}

\* the sorted table and the summary metrics under it
ProductivitySummary(records, order) ==
    [rendered |-> TRUE,
     exc |-> None,
     prod |-> [i \in DOMAIN records |-> records[order[i]]],
     total_yield |-> SumOf([i \in DOMAIN records |-> records[i].yield]),
     total_burn |-> SumOf([i \in DOMAIN records |-> records[i].burn]),
     total_premium |-> SumOf([i \in DOMAIN records |-> records[i].premium]),
     total_productivity |-> SumOf([i \in DOMAIN records |-> records[i].total]),
     accretive_count |-> AccretiveCount(records)]

NotRendered == [rendered |-> FALSE, exc |-> None, prod |-> <<>>]

Raised(exc) == [rendered |-> FALSE, exc |-> exc, prod |-> <<>>]

\* the productivity records of the ETH table before the sort; eth_fetched is
\* fetch_eth_price()["price"]
EthProductivityRecords(eth_fetched, staking_apy, companies, stocks) ==
    LET eth_price == OrZero(eth_fetched)
        df == build_dat_dataframe(companies, stocks, eth_price, staking_apy)
    IN  [i \in DOMAIN companies |-> EthProductivity(df.rows[i], companies[i], staking_apy)]

\* the outcomes of render_dat_table: nothing rendered without an ETH price,
\* an exception of the frame or of strptime, or the table in one of its orders
render_dat_table(eth_fetched, staking_apy, companies, stocks) ==
    LET eth_price == OrZero(eth_fetched)
        df == build_dat_dataframe(companies, stocks, eth_price, staking_apy)
        records == EthProductivityRecords(eth_fetched, staking_apy, companies, stocks)
    IN  IF ~Truthy(eth_price) THEN {NotRendered}
        ELSE IF IsExc(df.exc) THEN {Raised(df.exc)}
        ELSE IF \E i \in DOMAIN companies : IsNone(companies[i].days_active)
        THEN {Raised(ValueError)}
        ELSE {ProductivitySummary(records, order) : order \in DescendingOrders(records)}

----------------------------------------------------------------------------
(* components/other_dats.py: render_productivity_section                   *)

\* one entry of BTC_/SOL_/HYPE_/BNB_DAT_COMPANIES; from_premium is the
\* <asset>_from_premium field, days_active is None when dat_start_date does
\* not parse
OtherCompany(ticker, holdings, burn, premium, days, apy, mined, miner) ==
    [ticker |-> ticker, holdings |-> Num(holdings), quarterly_burn_usd |-> Num(burn),
     from_premium |-> Num(premium), days_active |-> days, staking_pct |-> Rat(1, 2),
     staking_apy |-> apy, btc_mined_annual |-> Num(mined), is_miner |-> miner]

annual_burn_tokens(quarterly_burn_usd, asset_price) ==
    IF Gt(asset_price, Num(0)) THEN PyDiv(PyMul(quarterly_burn_usd, Num(4)), asset_price)
    ELSE Num(0)

total_tokens(annual_yield_tokens, annualized_premium, annual_burn_tokens_) ==
    PySub(PyAdd(annual_yield_tokens, annualized_premium), annual_burn_tokens_)

net_rate_tokens(total_tokens_, holdings) ==
    IF Gt(holdings, Num(0)) THEN PyDiv(total_tokens_, holdings) ELSE Num(0)

is_accretive_tokens(total_tokens_) == Gt(total_tokens_, Num(0))

\* a slip the BTC multiple could have: a total of exactly 0 counts as a gain
yield_multiple_AtLeastZero(is_btc, total_tokens_, net_rate, staking_apy) ==
    IF is_btc THEN (IF Ge(total_tokens_, Num(0)) THEN Inf ELSE Num(0))
    ELSE IF Gt(staking_apy, Num(0)) THEN PyDiv(net_rate, staking_apy)
    ELSE Num(0)

\* BTC is compared to 0% (no native yield), the others to their staking APY
yield_multiple(is_btc, total_tokens_, net_rate, staking_apy) ==
    IF is_btc THEN (IF Gt(total_tokens_, Num(0)) THEN Inf ELSE Num(0))
    ELSE IF Gt(staking_apy, Num(0)) THEN PyDiv(net_rate, staking_apy)
    ELSE Num(0)

\* the body of the loop, for one company
OtherProductivity(asset, company, asset_price) ==
    LET is_btc == asset = "BTC"
        holdings == company.holdings
        annual_yield_tokens ==
            IF is_btc THEN company.btc_mined_annual
            ELSE PyMul(PyMul(holdings, company.staking_pct), company.staking_apy)
        is_miner == IF is_btc THEN company.is_miner ELSE FALSE
        years_active == IF IsNone(company.days_active) THEN Num(1)
                        ELSE PyDiv(MonthsActive(company.days_active), Num(12))
        annualized_premium == AnnualizedPremium(company.from_premium, years_active)
        burn == annual_burn_tokens(company.quarterly_burn_usd, asset_price)
        total == total_tokens(annual_yield_tokens, annualized_premium, burn)
        net_rate == net_rate_tokens(total, holdings)
    IN  [ticker |-> company.ticker,
         holdings |-> holdings,
         is_miner |-> is_miner,
         yield |-> annual_yield_tokens,
         years_active |-> years_active,
         premium |-> annualized_premium,
         burn |-> burn,
         quarterly_burn |-> company.quarterly_burn_usd,
         total |-> total,
         total_usd |-> PyMul(total, asset_price),
         net_rate |-> net_rate,
         yield_multiple |-> yield_multiple(is_btc, total, net_rate, company.staking_apy),
         accretive |-> is_accretive_tokens(total)]

OtherProductivityRecords(asset, companies, asset_price) ==
    [i \in DOMAIN companies |-> OtherProductivity(asset, companies[i], asset_price)]

\* the outcomes of render_productivity_section
render_productivity_section(asset, companies, asset_price) ==
    LET records == OtherProductivityRecords(asset, companies, asset_price)
    IN  IF companies = <<>> \/ Le(asset_price, Num(0)) THEN {NotRendered}
        ELSE {ProductivitySummary(records, order) : order \in DescendingOrders(records)}

----------------------------------------------------------------------------
(* data/fetchers.py: _fetch_from_yahoo, the drawdown of a quote            *)

RECURSIVE MaxOf(_)
MaxOf(seq) ==
    IF Len(seq) = 1 THEN Head(seq)
    ELSE LET m == MaxOf(Tail(seq)) IN IF Gt(Head(seq), m) THEN Head(seq) ELSE m

\* hist: the High column of stock.history(period="1y"), possibly empty
yahoo_drawdown(current_price, hist) ==
    LET ath_1y == IF hist = <<>> THEN None ELSE MaxOf(hist)
    IN  [price |-> current_price,
         ath_1y |-> ath_1y,
         drawdown_from_ath |->
            IF Truthy(ath_1y) /\ Truthy(current_price)
            THEN PyDiv(PySub(current_price, ath_1y), ath_1y)
            ELSE None]

----------------------------------------------------------------------------
(* data/calculations.py: calculate_portfolio_metrics                       *)

\* positions: PERSONAL_POSITIONS in insertion order, each [shares, cost_basis];
\* stocks[i]: stock_data.get(ticker, {}) of position i (NoResult: no entry)
\* a slip the loop could have: the value is added under `if cost_basis`
RECURSIVE PortfolioLoop_ValueUnderCostBasis(_, _, _, _, _)
PortfolioLoop_ValueUnderCostBasis(positions, stocks, i, total_value, total_cost) ==
    IF i > Len(positions) THEN [total_value |-> total_value, total_cost |-> total_cost]
    ELSE LET shares == positions[i].shares
             cost_basis == positions[i].cost_basis
             price == OrZero(stocks[i].price)
             value == PyMul(shares, price)
         IN  PortfolioLoop_ValueUnderCostBasis(
                positions, stocks, i + 1,
                IF Truthy(cost_basis) THEN PyAdd(total_value, value) ELSE total_value,
                IF Truthy(cost_basis)
                THEN PyAdd(total_cost, PyMul(shares, cost_basis))
                ELSE total_cost)

RECURSIVE PortfolioLoop(_, _, _, _, _)
PortfolioLoop(positions, stocks, i, total_value, total_cost) ==
    IF i > Len(positions) THEN [total_value |-> total_value, total_cost |-> total_cost]
    ELSE LET shares == positions[i].shares
             cost_basis == positions[i].cost_basis
             price == OrZero(stocks[i].price)
             value == PyMul(shares, price)
         IN  PortfolioLoop(positions, stocks, i + 1,
                           PyAdd(total_value, value),
                           IF Truthy(cost_basis)
                           THEN PyAdd(total_cost, PyMul(shares, cost_basis))
                           ELSE total_cost)

calculate_portfolio_metrics(positions, stocks) ==
    LET totals == PortfolioLoop(positions, stocks, 1, Num(0), Num(0))
        total_value == totals.total_value
        total_cost == totals.total_cost
    IN  [total_value |-> total_value,
         total_cost |-> IF Gt(total_cost, Num(0)) THEN total_cost ELSE None,
         total_pnl |-> IF Gt(total_cost, Num(0)) THEN PySub(total_value, total_cost)
                       ELSE None,
         positions |-> [i \in DOMAIN positions |->
                          [shares |-> positions[i].shares,
                           price |-> OrZero(stocks[i].price),
                           value |-> PyMul(positions[i].shares,
                                           OrZero(stocks[i].price))]]]

----------------------------------------------------------------------------
(* data/calculations.py: calculate_treasury_value_change, in floats        *)

\* the significand of a float: Precision binary digits (53 in CPython)
Precision == 4

RECURSIVE Pow2(_)
Pow2(k) == IF k = 0 THEN 1 ELSE 2 * Pow2(k - 1)

\* the whole number nearest to a / d, a tie going to the even one
NearestEven(a, d) ==
    LET q == a \div d
        r == a % d
    IN  IF 2 * r > d THEN q + 1
        ELSE IF 2 * r = d THEN q + (q % 2)
        ELSE q

\* the float nearest to a / d > 0: a / d is scaled by a power of two into
\* [2^(Precision-1), 2^Precision), rounded to a whole number, scaled back
RECURSIVE RoundPositive(_, _)
RoundPositive(a, d) ==
    IF a < Pow2(Precision - 1) * d
    THEN LET r == RoundPositive(2 * a, d) IN Rat(r.n, 2 * r.d)
    ELSE IF a >= Pow2(Precision) * d
    THEN LET r == RoundPositive(a, 2 * d) IN Rat(2 * r.n, r.d)
    ELSE Num(NearestEven(a, d))

\* the result of a float operation whose exact value is x
Float(x) ==
    IF ~IsNum(x) \/ x.n = 0 THEN x
    ELSE IF x.n > 0 THEN RoundPositive(x.n, x.d)
    ELSE LET r == RoundPositive(-x.n, x.d) IN Rat(-r.n, r.d)

FloatMul(a, b) == Float(PyMul(a, b))

FloatAdd(a, b) == Float(PyAdd(a, b))

FloatSub(a, b) == Float(PySub(a, b))

FloatDiv(a, b) == Float(PyDiv(a, b))

\* a slip the decomposition could have: the tokens added are valued at the
\* previous price
calculate_treasury_value_change_PreviousPrice(current_eth, previous_eth, current_price, previous_price) ==
    LET current_value == FloatMul(current_eth, current_price)
        previous_value == FloatMul(previous_eth, previous_price)
        total_change == FloatSub(current_value, previous_value)
    IN  [total_change |-> total_change,
         pct_change |-> IF Gt(previous_value, Num(0))
                        THEN FloatDiv(total_change, previous_value)
                        ELSE Num(0),
         price_effect |-> FloatMul(previous_eth, FloatSub(current_price, previous_price)),
         accumulation_effect |->
             FloatMul(FloatSub(current_eth, previous_eth), previous_price)]

calculate_treasury_value_change(current_eth, previous_eth, current_price, previous_price) ==
    LET current_value == FloatMul(current_eth, current_price)
        previous_value == FloatMul(previous_eth, previous_price)
        total_change == FloatSub(current_value, previous_value)
    IN  [total_change |-> total_change,
         pct_change |-> IF Gt(previous_value, Num(0))
                        THEN FloatDiv(total_change, previous_value)
                        ELSE Num(0),
         price_effect |-> FloatMul(previous_eth, FloatSub(current_price, previous_price)),
         accumulation_effect |->
             FloatMul(FloatSub(current_eth, previous_eth), current_price)]

----------------------------------------------------------------------------
(* data/calculations.py and components/other_dats.py: format_large_number  *)

Thousand == 1000

Million == 1000000

Billion == 1000000000

RECURSIVE Pow10(_)
Pow10(k) == IF k = 0 THEN 1 ELSE 10 * Pow10(k - 1)

\* f"{n / unit:.{decimals}f}" of a whole number n >= 0, as a count of
\* 10^-decimals: the nearest one, a tie going to the even one
Rounded(n, unit, decimals) ==
    LET scale == Pow10(decimals) IN
    IF unit >= scale
    THEN LET step == unit \div scale
             q == n \div step
             r == n % step
         IN  IF 2 * r > step THEN q + 1
             ELSE IF 2 * r = step THEN q + (q % 2)
             ELSE q
    ELSE n * (scale \div unit)

\* the string f"{sign}${mantissa}{suffix}"
Text(sign, mantissa, decimals, suffix) ==
    [sign |-> sign, mantissa |-> mantissa, decimals |-> decimals, suffix |-> suffix]

NotAvailable == Text("", 0, 0, "N/A")

\* a slip the formatter could have: the boundaries belong to the smaller unit
format_large_number_Exclusive(value, decimals) ==
    IF IsNone(value) THEN NotAvailable
    ELSE LET abs_value == AbsInt(value.n)
             sign == IF value.n < 0 THEN "-" ELSE ""
         IN  IF abs_value > Billion
             THEN Text(sign, Rounded(abs_value, Billion, decimals), decimals, "B")
             ELSE IF abs_value > Million
             THEN Text(sign, Rounded(abs_value, Million, decimals), decimals, "M")
             ELSE IF abs_value > Thousand
             THEN Text(sign, Rounded(abs_value, Thousand, decimals), decimals, "K")
             ELSE Text(sign, Rounded(abs_value, 1, decimals), decimals, "")

\* data/calculations.py, of a whole number of dollars or None
format_large_number(value, decimals) ==
    IF IsNone(value) THEN NotAvailable
    ELSE LET abs_value == AbsInt(value.n)
             sign == IF value.n < 0 THEN "-" ELSE ""
         IN  IF abs_value >= Billion
             THEN Text(sign, Rounded(abs_value, Billion, decimals), decimals, "B")
             ELSE IF abs_value >= Million
             THEN Text(sign, Rounded(abs_value, Million, decimals), decimals, "M")
             ELSE IF abs_value >= Thousand
             THEN Text(sign, Rounded(abs_value, Thousand, decimals), decimals, "K")
             ELSE Text(sign, Rounded(abs_value, 1, decimals), decimals, "")

\* components/other_dats.py, of a whole number of dollars >= 0 (its callers
\* pass abs(x) for a negative x)
other_dats_format_large_number(num) ==
    IF num.n >= Billion THEN Text("", Rounded(num.n, Billion, 2), 2, "B")
    ELSE IF num.n >= Million THEN Text("", Rounded(num.n, Million, 1), 1, "M")
    ELSE IF num.n >= Thousand THEN Text("", Rounded(num.n, Thousand, 0), 0, "K")
    ELSE Text("", Rounded(num.n, 1, 0), 0, "")

----------------------------------------------------------------------------
(* Input sets of the explored calls                                        *)

OptVals == {None} \cup {Num(i) : i \in Vals}

\* nav_discount in steps of 5%, on both sides of the 10% band
Discounts == {None} \cup {Rat(i, 20) : i \in -(MaxVal + 1) .. (MaxVal + 1)}

\* P/E on both sides of the terminal threshold
PERatios == {None, Num(0)} \cup {PyAdd(TerminalPE, Num(i)) : i \in -1 .. MaxVal}

OpsCostRatios == {None, Rat(1, 2)}

\* price histories of up to MaxVal daily highs
Histories == UNION {[1 .. n -> {Num(i) : i \in Pos}] : n \in 0 .. MaxVal}

\* company registries of 1 .. n entries with distinct tickers
Registries(n, entries) ==
    {r \in UNION {[1 .. m -> entries] : m \in 1 .. n} :
        \A i, j \in DOMAIN r : r[i].ticker = r[j].ticker => i = j}

EthEntries ==
    {EthCompany(t, h, 1, 0, Num(400)) : t \in 1 .. MaxCompanies, h \in NonNeg}

\* company ages: a start date in the future, under a month ago, over a year
\* ago, and one that does not parse
DaysActive == {Num(-5), Num(10), Num(400), None}

\* registries of several companies over few parameter values
TableEthEntries ==
    {EthCompany(t, h, b, pr, Num(400)) :
        t \in 1 .. MaxCompanies, h \in {0, MaxVal}, b \in {0, 1}, pr \in {0, 1}}

\* registries of one company over all parameter values
WideEthEntries ==
    {EthCompany(1, h, b, pr, d) :
        h \in NonNeg, b \in {0, 1}, pr \in {0, 1}, d \in DaysActive}

\* yield parameters of an entry: (staking_apy, btc_mined_annual, is_miner)
YieldParams(asset) ==
    IF asset = "BTC" THEN {<<Num(0), 0, FALSE>>, <<Num(0), 1, TRUE>>}
    ELSE {<<Num(0), 0, FALSE>>, <<Rat(1, 20), 0, FALSE>>}

TableOtherEntries(asset) ==
    {OtherCompany(t, h, b, 1, Num(400), y[1], y[2], y[3]) :
        t \in 1 .. MaxCompanies, h \in {0, MaxVal}, b \in {0, 1}, y \in YieldParams(asset)}

\* also a BTC entry that is not flagged a miner with a mined-production
\* figure, and one with staking configured
WideYieldParams(asset) ==
    IF asset = "BTC"
    THEN YieldParams(asset) \cup {<<Num(0), 1, FALSE>>, <<Rat(1, 20), 0, FALSE>>}
    ELSE YieldParams(asset)

WideOtherEntries(asset) ==
    {OtherCompany(1, h, b, pr, d, y[1], y[2], y[3]) :
        h \in NonNeg, b \in {0, 1}, pr \in {0, 1}, d \in DaysActive,
        y \in WideYieldParams(asset)}

Assets == {"BTC", "SOL"}

----------------------------------------------------------------------------
(* The calls: every function is pure, so a behaviour is one invocation:    *)
(* the initial state holds the entry point and its arguments, the action   *)
(* of that entry point runs it to completion and stores what it returned.  *)

Pending == [k |-> "pending", n |-> 0, d |-> 1]

Returned == pc = "returned"

NavPerShareCalls ==
    {[fn |-> "calculate_nav_per_share", eth_holdings |-> Num(h), eth_price |-> Num(p),
      shares_outstanding |-> s] : h \in NonNeg, p \in Vals, s \in OptVals}

NavDiscountCalls ==
    {[fn |-> "calculate_nav_discount", stock_price |-> sp, nav_per_share |-> nps] :
        sp \in OptVals, nps \in OptVals \cup {Rat(1, 2)}}

EthPerShareCalls ==
    {[fn |-> "calculate_eth_per_share", eth_holdings |-> Num(h), shares_outstanding |-> s] :
        h \in NonNeg, s \in OptVals}

DrawdownCalls ==
    {[fn |-> "calculate_drawdown", current_price |-> Num(c), high_price |-> Num(h)] :
        c \in NonNeg, h \in Vals}

YahooDrawdownCalls ==
    {[fn |-> "_fetch_from_yahoo", current_price |-> Num(c), hist |-> hist] :
        c \in Pos, hist \in Histories}

DeterminePhaseCalls ==
    {[fn |-> "determine_dat_phase", nav_discount |-> nd, has_dividend |-> div,
      pe_ratio |-> pe, ops_cost_ratio |-> ops] :
        nd \in Discounts, div \in BOOLEAN, pe \in PERatios, ops \in OpsCostRatios}

\* build_dat_dataframe over a registry of one company
BuildDatDataframeCalls ==
    UNION {
        {[fn |-> "build_dat_dataframe", companies |-> companies, stocks |-> stocks,
          eth_price |-> Num(p), staking_apy |-> Rat(1, 20)] :
            stocks \in [DOMAIN companies -> FetchedSnapshots], p \in Vals} :
        companies \in Registries(1, EthEntries)}

\* indicator values on both sides of the thresholds, zero and absence
HealthValues == OptVals \cup {Rat(1, 2), Rat(3, 2)}

Thresholds == {Num(i) : i \in Vals}

HealthStatusCalls ==
    {[fn |-> "get_health_status", value |-> v, warning_threshold |-> w,
      critical_threshold |-> c, higher_is_better |-> hib] :
        v \in HealthValues, w \in Thresholds, c \in Thresholds, hib \in BOOLEAN}

Dominances == {None, Num(0), Rat(3, 10), DominanceWarning, DominanceHealthy, Num(1)}

StakingApys == {None, Num(0), Rat(1, 100), YieldWarning, YieldHealthy, Rat(1, 20)}

DeficitRatios == {None, Num(-6), DeficitHealthy, Num(-1), DeficitWarning, Num(MaxVal)}

PreconditionHealthCalls ==
    {[fn |-> "check_precondition_health", eth_dominance |-> dom,
      eth_staking_apy |-> apy, deficit_gdp_ratio |-> def] :
        dom \in Dominances, apy \in StakingApys, def \in DeficitRatios}

\* the fetchers succeed or fail; the staking fetcher keeps a fallback APY
\* beside its "error" key
RenderPreconditionHealthCalls ==
    {[fn |-> "render_precondition_health", defi_data |-> defi,
      staking_data |-> staking, fred_api_key |-> key, deficit_data |-> deficit] :
        defi \in {FetchFailed(None)} \cup {Fetched(v) : v \in {Num(0), Rat(3, 10), Num(1)}},
        staking \in {FetchFailed(Rat(7, 200))} \cup
                    {Fetched(v) : v \in {Num(0), YieldWarning, Rat(1, 20)}},
        key \in BOOLEAN,
        deficit \in {FetchFailed(None)} \cup {Fetched(v) : v \in {Num(-6), Num(0)}}}

\* holdings in whole tokens and prices in tenths of a dollar, as floats
TreasuryHoldings == {Float(Num(i)) : i \in 0 .. MaxVal + 1}

TreasuryPrices == {Float(Rat(i, 10)) : i \in 0 .. 5 * MaxVal}

TreasuryValueChangeCalls ==
    {[fn |-> "calculate_treasury_value_change", current_eth |-> ce,
      previous_eth |-> pe, current_price |-> cp, previous_price |-> pp] :
        ce \in TreasuryHoldings, pe \in TreasuryHoldings,
        cp \in TreasuryPrices, pp \in TreasuryPrices}

\* whole dollar amounts on both sides of every unit
Magnitudes ==
    {u + i : u \in {Thousand, Million, Billion}, i \in -MaxVal .. MaxVal}
    \cup (0 .. MaxVal) \cup {Thousand \div 2 + Million, 2 * Billion}

FormatLargeNumberCalls ==
    {[fn |-> "format_large_number", value |-> v, decimals |-> 2] :
        v \in {None} \cup {Num(m) : m \in Magnitudes} \cup {Num(-m) : m \in Magnitudes}}
    \cup
    {[fn |-> "other_dats.format_large_number", value |-> Num(m), decimals |-> 0] :
        m \in Magnitudes}

\* the detail page of one company over what the stock sources answer
DetailPageCalls ==
    {[fn |-> "render_dat_detail_page", company |-> EthCompany(1, h, 1, 0, Num(400)),
      eth_fetched |-> e, yahoo |-> y, fmp |-> f, alpha_vantage |-> a] :
        h \in {0, MaxVal}, e \in {None, Num(1)}, y \in YahooResults,
        f \in {NoResult, Snapshot("fmp", Num(1), Num(1), None)},
        a \in AlphaVantageResults}

\* positions with and without shares and cost basis, priced or not
PositionEntries ==
    {[shares |-> Num(sh), cost_basis |-> cb] :
        sh \in {0, MaxVal}, cb \in {None, Num(0), Num(1)}}

PositionStocks == {NoResult, Unavailable, Snapshot("yahoo", Num(MaxVal), None, None)}

PortfolioCalls ==
    UNION {
        {[fn |-> "calculate_portfolio_metrics", positions |-> positions,
          stocks |-> stocks] : stocks \in [DOMAIN positions -> PositionStocks]} :
        positions \in UNION {[1 .. n -> PositionEntries] : n \in 1 .. MaxPositions}}

\* the table of several companies at one ETH price with every stock source
\* down, and the table of one company over all fetched prices and snapshots
RenderDatTableCalls ==
    {[fn |-> "render_dat_table", eth_fetched |-> Num(1), staking_apy |-> a,
      companies |-> c, stocks |-> [i \in DOMAIN c |-> Unavailable]] :
        a \in {Num(0), Rat(1, 20)},
        c \in Registries(MaxCompanies, TableEthEntries)}
    \cup
    {[fn |-> "render_dat_table", eth_fetched |-> e, staking_apy |-> a,
      companies |-> c, stocks |-> [i \in DOMAIN c |-> st]] :
        e \in {None, Num(1), Num(MaxVal)},
        a \in {Num(0), Rat(1, 20)},
        c \in Registries(1, WideEthEntries),
        st \in {Unavailable, Snapshot("yahoo", Num(1), Num(1), None)}}

RenderProductivitySectionCalls ==
    UNION {
        {[fn |-> "render_productivity_section", asset |-> asset, companies |-> c,
          asset_price |-> Num(p)] :
            c \in {<<>>} \cup Registries(MaxCompanies, TableOtherEntries(asset)),
            p \in {0, 1}}
        \cup
        {[fn |-> "render_productivity_section", asset |-> asset, companies |-> c,
          asset_price |-> Num(p)] :
            c \in Registries(1, WideOtherEntries(asset)), p \in Vals} :
        asset \in Assets}

InitCalc ==
    /\ call \in NavPerShareCalls \cup NavDiscountCalls \cup EthPerShareCalls
                \cup DrawdownCalls \cup YahooDrawdownCalls \cup DeterminePhaseCalls
                \cup BuildDatDataframeCalls \cup PortfolioCalls
                \cup DetailPageCalls \cup HealthStatusCalls
                \cup PreconditionHealthCalls \cup RenderPreconditionHealthCalls
                \cup FormatLargeNumberCalls \cup TreasuryValueChangeCalls
    /\ pc = "called"
    /\ ret = Pending
    /\ attempt = 0
    /\ io = <<>>
    /\ validation_log = <<>>
    /\ now = 0

Run(fn, result) ==
    /\ call.fn = fn
    /\ pc = "called"
    /\ pc' = "returned"
    /\ ret' = result
    /\ UNCHANGED <<call, attempt, io, validation_log, now>>

RunNavPerShare ==
    /\ call.fn = "calculate_nav_per_share"
    /\ Run("calculate_nav_per_share",
           calculate_nav_per_share(call.eth_holdings, call.eth_price,
                                   call.shares_outstanding))

RunNavDiscount ==
    /\ call.fn = "calculate_nav_discount"
    /\ Run("calculate_nav_discount",
           calculate_nav_discount(call.stock_price, call.nav_per_share))

RunEthPerShare ==
    /\ call.fn = "calculate_eth_per_share"
    /\ Run("calculate_eth_per_share",
           calculate_eth_per_share(call.eth_holdings, call.shares_outstanding))

RunDrawdown ==
    /\ call.fn = "calculate_drawdown"
    /\ Run("calculate_drawdown",
           calculate_drawdown(call.current_price, call.high_price))

RunYahooDrawdown ==
    /\ call.fn = "_fetch_from_yahoo"
    /\ Run("_fetch_from_yahoo", yahoo_drawdown(call.current_price, call.hist))

RunDeterminePhase ==
    /\ call.fn = "determine_dat_phase"
    /\ Run("determine_dat_phase",
           determine_dat_phase(call.nav_discount, call.has_dividend,
                               call.pe_ratio, call.ops_cost_ratio))

RunBuildDatDataframe ==
    /\ call.fn = "build_dat_dataframe"
    /\ Run("build_dat_dataframe",
           build_dat_dataframe(call.companies, call.stocks, call.eth_price,
                               call.staking_apy))

RunPortfolioMetrics ==
    /\ call.fn = "calculate_portfolio_metrics"
    /\ Run("calculate_portfolio_metrics",
           calculate_portfolio_metrics(call.positions, call.stocks))

RunRenderDatDetailPage ==
    /\ call.fn = "render_dat_detail_page"
    /\ Run("render_dat_detail_page",
           render_dat_detail_page(call.company, call.eth_fetched, call.yahoo,
                                  call.fmp, call.alpha_vantage))

RunHealthStatus ==
    /\ call.fn = "get_health_status"
    /\ Run("get_health_status",
           get_health_status(call.value, call.warning_threshold,
                             call.critical_threshold, call.higher_is_better))

RunPreconditionHealth ==
    /\ call.fn = "check_precondition_health"
    /\ Run("check_precondition_health",
           check_precondition_health(call.eth_dominance, call.eth_staking_apy,
                                     call.deficit_gdp_ratio))

RunRenderPreconditionHealth ==
    /\ call.fn = "render_precondition_health"
    /\ Run("render_precondition_health",
           render_precondition_health(call.defi_data, call.staking_data,
                                      call.fred_api_key, call.deficit_data))

RunTreasuryValueChange ==
    /\ call.fn = "calculate_treasury_value_change"
    /\ Run("calculate_treasury_value_change",
           calculate_treasury_value_change(call.current_eth, call.previous_eth,
                                           call.current_price, call.previous_price))

RunFormatLargeNumber ==
    /\ call.fn = "format_large_number"
    /\ Run("format_large_number", format_large_number(call.value, call.decimals))

RunOtherDatsFormatLargeNumber ==
    /\ call.fn = "other_dats.format_large_number"
    /\ Run("other_dats.format_large_number", other_dats_format_large_number(call.value))

NextCalc ==
    \/ RunNavPerShare
    \/ RunNavDiscount
    \/ RunEthPerShare
    \/ RunDrawdown
    \/ RunYahooDrawdown
    \/ RunDeterminePhase
    \/ RunBuildDatDataframe
    \/ RunPortfolioMetrics
    \/ RunRenderDatDetailPage
    \/ RunHealthStatus
    \/ RunPreconditionHealth
    \/ RunRenderPreconditionHealth
    \/ RunFormatLargeNumber
    \/ RunOtherDatsFormatLargeNumber
    \/ RunTreasuryValueChange

SpecCalc == InitCalc /\ [][NextCalc]_vars

RunRenderDatTable ==
    /\ call.fn = "render_dat_table"
    /\ \E result \in render_dat_table(call.eth_fetched, call.staking_apy,
                                      call.companies, call.stocks) :
        Run("render_dat_table", result)

RunRenderProductivitySection ==
    /\ call.fn = "render_productivity_section"
    /\ \E result \in render_productivity_section(call.asset, call.companies,
                                                 call.asset_price) :
        Run("render_productivity_section", result)

InitProductivity ==
    /\ call \in BuildDatDataframeCalls \cup RenderDatTableCalls
                \cup RenderProductivitySectionCalls
    /\ pc = "called"
    /\ ret = Pending
    /\ attempt = 0
    /\ io = <<>>
    /\ validation_log = <<>>
    /\ now = 0

NextProductivity ==
    \/ RunBuildDatDataframe
    \/ RunRenderDatTable
    \/ RunRenderProductivitySection

SpecProductivity == InitProductivity /\ [][NextProductivity]_vars

----------------------------------------------------------------------------
(* Claims about the valuation calculator and the phase classifier          *)

\* shares_outstanding absent, zero or negative
BadShares(s) == IsNone(s) \/ (IsNum(s) /\ s.n <= 0)

\* C1: whenever shares_outstanding is absent, zero or negative, nav_per_share,
\* nav_discount and token_per_share are all None (never 0 or another number)
\* and nothing is raised, in the functions and in every row built from a snapshot.
C1_UndefinedWithoutShares ==
    Returned =>
        /\ (call.fn = "calculate_nav_per_share" /\ BadShares(call.shares_outstanding))
            => ret = None
        /\ (call.fn = "calculate_eth_per_share" /\ BadShares(call.shares_outstanding))
            => ret = None
        /\ (call.fn = "calculate_nav_discount" /\ IsNone(call.nav_per_share))
            => ret = None
        /\ call.fn = "build_dat_dataframe" =>
            /\ ret.exc = None
            /\ \A i \in DOMAIN call.companies :
                BadShares(call.stocks[i].shares_outstanding) =>
                    /\ ret.rows[i].nav_per_share = None
                    /\ ret.rows[i].nav_discount = None
                    /\ ret.rows[i].eth_per_share = None

\* a row built from an Alpha Vantage quote (no share count) of a company with
\* holdings, at a positive ETH price
C1_Witness ==
    /\ Returned
    /\ call.fn = "build_dat_dataframe"
    /\ \E i \in DOMAIN call.companies :
        /\ call.stocks[i].source = "alpha_vantage"
        /\ call.companies[i].eth_holdings.n > 0
        /\ call.eth_price.n > 0
        /\ ret.rows[i].nav_per_share = None
        /\ ret.rows[i].eth_per_share = None

\* C3: the drawdown reported for an observation is never positive, also when
\* the current price is above the recorded high.
C3_DrawdownNeverPositive ==
    Returned =>
        /\ call.fn = "calculate_drawdown" => Le(ret, Num(0))
        /\ (call.fn = "_fetch_from_yahoo" /\ IsNum(ret.drawdown_from_ath))
            => Le(ret.drawdown_from_ath, Num(0))

\* the terminal rule of the classifier
TerminalRule(c) == c.has_dividend /\ IsNum(c.pe_ratio) /\ Gt(c.pe_ratio, TerminalPE)

\* nav_discount present and strictly inside the 10% band
InBand(nd) == IsNum(nd) /\ Lt(PyAbs(nd), TransitionBand)

\* C4: when the terminal rule does not match, the phase is transition whenever
\* has_dividend holds or nav_discount is present with -0.10 < nav_discount < 0.10.
C4_TransitionInBand ==
    (Returned /\ call.fn = "determine_dat_phase" /\ ~TerminalRule(call)
        /\ (call.has_dividend \/ InBand(call.nav_discount)))
    => ret = "transition"

\* C5: the phase is terminal exactly when has_dividend holds and pe_ratio is
\* present and above 20, whatever nav_discount is.
C5_TerminalExactly ==
    (Returned /\ call.fn = "determine_dat_phase")
    => (ret = "terminal" <=> TerminalRule(call))

\* a dividend payer with P/E 21 whose discount is inside the transition band
C5_Witness ==
    /\ Returned
    /\ call.fn = "determine_dat_phase"
    /\ call.has_dividend
    /\ call.pe_ratio = Num(21)
    /\ call.nav_discount = Rat(1, 20)
    /\ ret = "terminal"

\* C6: the classifier always returns one of the three phases, and without a
\* dividend it returns accumulation whenever nav_discount is absent or
\* |nav_discount| >= 0.10, whatever pe_ratio and ops_cost_ratio are; a row
\* whose nav_discount is undefined is classified accumulation.
C6_DefaultAccumulation ==
    Returned =>
        /\ call.fn = "determine_dat_phase" =>
            /\ ret \in {"accumulation", "transition", "terminal"}
            /\ (~call.has_dividend
                /\ (IsNone(call.nav_discount)
                    \/ Ge(PyAbs(call.nav_discount), TransitionBand)))
                => ret = "accumulation"
        /\ call.fn = "build_dat_dataframe" =>
            /\ ret.exc = None
            /\ \A i \in DOMAIN call.companies :
                ret.rows[i].nav_discount = None => ret.rows[i].phase = "accumulation"

\* no dividend, no discount, a P/E above the terminal threshold and an
\* ops-cost ratio given
C6_Witness ==
    /\ Returned
    /\ call.fn = "determine_dat_phase"
    /\ ~call.has_dividend
    /\ IsNone(call.nav_discount)
    /\ call.pe_ratio = Num(21)
    /\ IsNum(call.ops_cost_ratio)
    /\ ret = "accumulation"

----------------------------------------------------------------------------
(* Claims about the portfolio aggregator                                   *)

\* C2: total_pnl is defined only if every position with nonzero shares has a
\* defined cost basis: with one such position lacking it, total_pnl is None.
C2_PnlNeedsEveryCostBasis ==
    (Returned /\ call.fn = "calculate_portfolio_metrics"
        /\ \E i \in DOMAIN call.positions :
                call.positions[i].shares.n # 0 /\ IsNone(call.positions[i].cost_basis))
    => ret.total_pnl = None

----------------------------------------------------------------------------
(* Claims about the productivity calculator                                *)

\* a productivity table was rendered by the call
Rendered ==
    /\ Returned
    /\ call.fn \in {"render_dat_table", "render_productivity_section"}
    /\ ret.rendered

\* the price the productivity call converts the burn with
AssetPrice ==
    IF call.fn = "render_productivity_section" THEN call.asset_price
    ELSE IF call.fn = "render_dat_table" THEN OrZero(call.eth_fetched)
    ELSE call.eth_price

\* the registry entry a productivity record was computed from
CompanyOf(record) ==
    CHOOSE c \in {call.companies[i] : i \in DOMAIN call.companies} :
        c.ticker = record.ticker

\* an entry of another registry read as an entry of DAT_COMPANIES
AsEthCompany(c) ==
    [ticker |-> c.ticker, eth_holdings |-> c.holdings, staking_pct |-> c.staking_pct,
     quarterly_burn_usd |-> c.quarterly_burn_usd, eth_from_premium |-> c.from_premium,
     days_active |-> c.days_active]

\* the total the ETH table computes for that entry, price and staking APY
EthTableTotal(c, asset_price) ==
    EthProductivity(DatRow(AsEthCompany(c), Unavailable, asset_price, c.staking_apy),
                    AsEthCompany(c), c.staking_apy).total

\* C7: net_rate is undefined (None) when holdings = 0, neither 0 nor an
\* exception; for holdings > 0 it is total_annual_tokens / holdings.
C7_NetRateUndefinedAtZeroHoldings ==
    Rendered =>
        \A i \in DOMAIN ret.prod :
            /\ ret.prod[i].holdings.n = 0 => IsNone(ret.prod[i].net_rate)
            /\ ret.prod[i].holdings.n > 0 =>
                ret.prod[i].net_rate = PyDiv(ret.prod[i].total, ret.prod[i].holdings)

C9_AccretiveIffPositiveTotal ==
    Rendered =>
        /\ \A i \in DOMAIN ret.prod :
            ret.prod[i].accretive <=> Gt(ret.prod[i].total, Num(0))
        /\ ret.accretive_count =
            Cardinality({i \in DOMAIN ret.prod : Gt(ret.prod[i].total, Num(0))})

\* a table holding a break-even record beside one with a positive total
C9_Witness ==
    /\ Rendered
    /\ ret.accretive_count = 1
    /\ \E i, j \in DOMAIN ret.prod :
        /\ ret.prod[i].total = Num(0)
        /\ ~ret.prod[i].accretive
        /\ Gt(ret.prod[j].total, Num(0))
        /\ ret.prod[j].accretive

\* C10: annual_burn_tokens is quarterly_burn_usd * 4 / asset_price when the
\* price is positive and 0 otherwise; the conversion never raises.
C10_BurnTokens ==
    Returned =>
        /\ call.fn = "build_dat_dataframe" =>
            /\ ret.exc = None
            /\ \A i \in DOMAIN ret.rows :
                ret.rows[i].annual_burn_eth =
                    IF call.eth_price.n > 0
                    THEN PyDiv(PyMul(call.companies[i].quarterly_burn_usd, Num(4)),
                               call.eth_price)
                    ELSE Num(0)
        /\ call.fn = "render_productivity_section" =>
            /\ ret.exc = None
            /\ \A i \in DOMAIN ret.prod :
                /\ call.asset_price.n > 0
                /\ ret.prod[i].burn =
                    PyDiv(PyMul(ret.prod[i].quarterly_burn, Num(4)), call.asset_price)

\* a row of a company with a burn, built at a negative ETH price
C10_Witness ==
    /\ Returned
    /\ call.fn = "build_dat_dataframe"
    /\ call.eth_price.n < 0
    /\ \E i \in DOMAIN ret.rows :
        /\ call.companies[i].quarterly_burn_usd.n > 0
        /\ ret.rows[i].annual_burn_eth = Num(0)

----------------------------------------------------------------------------
(* The productivity tables under the wall clock: both handlers read         *)
(* datetime.now() and age every company against it. A behaviour is two     *)
(* evaluations of one handler on the same explicit inputs, the second not  *)
(* earlier than the first.                                                 *)

\* the days, counted from a common origin, on which an evaluation can run
ClockDays == {15, 25, 400}

\* dat_start_date of a registry entry: a day, or a string that is no date
StartDates == {Num(0), Num(20), None}

\* an entry of DAT_COMPANIES as config.py stores it
DatedEthCompany(ticker, holdings, burn, premium, start) ==
    [ticker |-> ticker, eth_holdings |-> Num(holdings), staking_pct |-> Rat(1, 2),
     quarterly_burn_usd |-> Num(burn), eth_from_premium |-> Num(premium),
     dat_start_date |-> start]

\* an entry of another registry as config.py stores it
DatedOtherCompany(ticker, holdings, burn, premium, start, apy, mined, miner) ==
    [ticker |-> ticker, holdings |-> Num(holdings), quarterly_burn_usd |-> Num(burn),
     from_premium |-> Num(premium), dat_start_date |-> start, staking_pct |-> Rat(1, 2),
     staking_apy |-> apy, btc_mined_annual |-> Num(mined), is_miner |-> miner]

\* (today - dat_start).days, None when strptime rejects the string
DaysBetween(today, start) == IF IsNone(start) THEN None ELSE Num(today - start.n)

\* the registry as the loop of render_dat_table sees it on the day today
EthRegistryOn(today, companies) ==
    [i \in DOMAIN companies |->
        [ticker |-> companies[i].ticker,
         eth_holdings |-> companies[i].eth_holdings,
         staking_pct |-> companies[i].staking_pct,
         quarterly_burn_usd |-> companies[i].quarterly_burn_usd,
         eth_from_premium |-> companies[i].eth_from_premium,
         days_active |-> DaysBetween(today, companies[i].dat_start_date)]]

\* the registry as the loop of render_productivity_section sees it
OtherRegistryOn(today, companies) ==
    [i \in DOMAIN companies |->
        [ticker |-> companies[i].ticker,
         holdings |-> companies[i].holdings,
         quarterly_burn_usd |-> companies[i].quarterly_burn_usd,
         from_premium |-> companies[i].from_premium,
         days_active |-> DaysBetween(today, companies[i].dat_start_date),
         staking_pct |-> companies[i].staking_pct,
         staking_apy |-> companies[i].staking_apy,
         btc_mined_annual |-> companies[i].btc_mined_annual,
         is_miner |-> companies[i].is_miner]]

\* registries of one company, so that the order of the table is fixed
ClockDatTableCalls ==
    {[fn |-> "render_dat_table", eth_fetched |-> e, staking_apy |-> Rat(1, 20),
      companies |-> <<DatedEthCompany(1, h, b, pr, start)>>,
      stocks |-> <<Unavailable>>] :
        e \in {None, Num(1)}, h \in NonNeg, b \in {0, 1}, pr \in {0, 1},
        start \in StartDates}

ClockProductivitySectionCalls ==
    UNION {
        {[fn |-> "render_productivity_section", asset |-> asset,
          companies |-> <<DatedOtherCompany(1, h, 1, pr, start, y[1], y[2], y[3])>>,
          asset_price |-> Num(p)] :
            h \in NonNeg, pr \in {0, 1}, start \in StartDates,
            y \in YieldParams(asset), p \in {0, 1}} :
        asset \in Assets}

\* ret: the evaluations made so far, each with the day it ran on
InitClock ==
    /\ call \in ClockDatTableCalls \cup ClockProductivitySectionCalls
    /\ pc = "called"
    /\ ret = <<>>
    /\ attempt = 0
    /\ io = <<>>
    /\ validation_log = <<>>
    /\ now = 0

\* one evaluation on a day not before the previous one
Evaluate(today, out) ==
    /\ pc \in {"called", "evaluated"}
    /\ \A k \in DOMAIN ret : ret[k].today <= today
    /\ ret' = Append(ret, [today |-> today, out |-> out])
    /\ pc' = IF pc = "called" THEN "evaluated" ELSE "returned"
    /\ UNCHANGED <<call, attempt, io, validation_log, now>>

EvaluateDatTable ==
    /\ call.fn = "render_dat_table"
    /\ \E today \in ClockDays :
        \E out \in render_dat_table(call.eth_fetched, call.staking_apy,
                                    EthRegistryOn(today, call.companies), call.stocks) :
            Evaluate(today, out)

EvaluateProductivitySection ==
    /\ call.fn = "render_productivity_section"
    /\ \E today \in ClockDays :
        \E out \in render_productivity_section(
                        call.asset, OtherRegistryOn(today, call.companies),
                        call.asset_price) :
            Evaluate(today, out)

NextClock ==
    \/ EvaluateDatTable
    \/ EvaluateProductivitySection

SpecClock == InitClock /\ [][NextClock]_vars

----------------------------------------------------------------------------
(* data/fetchers.py: fetch_stock_data step by step. pc is the source about *)
(* to be asked ("yahoo", "fmp", "alpha_vantage"), "sleep" between two       *)
(* attempts on Yahoo, "returned" at the end; every source answers what it  *)
(* likes.                                                                  *)

MAX_RETRIES == 3

RETRY_DELAY == 2

\* a slip the loop could have: one pass too many
MoreAttempts_OneMore(a) == a + 1 < MAX_RETRIES + 1

\* for attempt in range(MAX_RETRIES): another attempt follows this one
MoreAttempts(a) == a + 1 < MAX_RETRIES

\* if attempt < MAX_RETRIES - 1: the failed attempt is followed by a sleep
SleepsAfter(a) == a < MAX_RETRIES - 1

\* time.sleep(RETRY_DELAY * (attempt + 1))
Backoff(a) == RETRY_DELAY * (a + 1)

\* the entries of io
Contact(source, answer) ==
    [op |-> "request", source |-> source, seconds |-> 0, answer |-> answer]

Sleep(seconds) ==
    [op |-> "sleep", source |-> "yahoo", seconds |-> seconds, answer |-> NoResult]

\* a slip the list sources could have: Alpha Vantage before FMP
SourceAfter_AlphaVantageFirst(source) ==
    IF source = "yahoo" THEN "alpha_vantage"
    ELSE IF source = "alpha_vantage" THEN "fmp"
    ELSE "returned"

\* the order of the list sources
SourceAfter(source) ==
    IF source = "yahoo" THEN "fmp"
    ELSE IF source = "fmp" THEN "alpha_vantage"
    ELSE "returned"

FetchStockDataCalls ==
    {[fn |-> "fetch_stock_data", ticker |-> t] : t \in 1 .. MaxCompanies}

InitFetch ==
    /\ call \in FetchStockDataCalls
    /\ pc = "yahoo"
    /\ ret = Pending
    /\ attempt = 0
    /\ io = <<>>
    /\ validation_log = <<>>
    /\ now = 0

\* return result
ReturnResult(result) ==
    /\ pc' = "returned"
    /\ ret' = result
    /\ UNCHANGED <<call, attempt, validation_log, now>>

\* the loop of _fetch_from_yahoo goes on, or returns None to fetch_stock_data
ContinueYahoo ==
    /\ IF MoreAttempts(attempt)
       THEN pc' = "yahoo" /\ attempt' = attempt + 1
       ELSE pc' = SourceAfter("yahoo") /\ attempt' = attempt
    /\ UNCHANGED <<call, ret, validation_log, now>>

\* one pass of the loop of _fetch_from_yahoo: NoResult stands for an
\* exception inside the try block (empty info, no price, network error)
YahooAttempt ==
    /\ call.fn = "fetch_stock_data"
    /\ pc = "yahoo"
    /\ \E answer \in YahooResults :
        /\ io' = Append(io, Contact("yahoo", answer))
        /\ IF HasPrice(answer) THEN ReturnResult(answer)
           ELSE IF SleepsAfter(attempt)
           THEN pc' = "sleep" /\ UNCHANGED <<call, ret, attempt, validation_log, now>>
           ELSE ContinueYahoo

\* time.sleep in the except branch, then continue
BackoffSleep ==
    /\ call.fn = "fetch_stock_data"
    /\ pc = "sleep"
    /\ io' = Append(io, Sleep(Backoff(attempt)))
    /\ ContinueYahoo

\* a fallback source is asked once
FallbackAttempt(source, answers) ==
    /\ call.fn = "fetch_stock_data"
    /\ pc = source
    /\ \E answer \in answers :
        /\ io' = Append(io, Contact(source, answer))
        /\ IF HasPrice(answer) THEN ReturnResult(answer)
           ELSE IF SourceAfter(source) = "returned" THEN ReturnResult(Unavailable)
           ELSE pc' = SourceAfter(source) /\ UNCHANGED <<call, ret, attempt, validation_log, now>>

FmpAttempt ==
    /\ pc = "fmp"
    /\ FallbackAttempt("fmp", FmpResults)

AlphaVantageAttempt ==
    /\ pc = "alpha_vantage"
    /\ FallbackAttempt("alpha_vantage", AlphaVantageResults)

NextFetch ==
    \/ YahooAttempt
    \/ BackoffSleep
    \/ FmpAttempt
    \/ AlphaVantageAttempt

SpecFetch == InitFetch /\ [][NextFetch]_vars

\* a request is answered or times out (timeout=10), a sleep ends: every
\* step that can be taken is taken
SpecFetchLive == SpecFetch /\ WF_vars(NextFetch)

----------------------------------------------------------------------------
(* validation/schema.py, validation/sources.py, validation/monitor.py      *)

MaxCalls == 3

\* the days on which the clock is read
Days == {0, 31, 91}

\* VALIDATION_RULES, in the order of the dict
VALIDATION_RULES ==
    <<[key |-> "holdings", max_age_days |-> 30],
      [key |-> "burn_rate", max_age_days |-> 90],
      [key |-> "stock_data", max_age_days |-> 1],
      [key |-> "crypto_prices", max_age_days |-> 0]>>

\* ALL_COMPANIES, one company of the ETH registry and one of the BTC registry
ALL_COMPANIES ==
    <<[asset_type |-> "ETH", ticker |-> "BMNR"],
      [asset_type |-> "BTC", ticker |-> "MSTR"]>>

MONITORED_FIELDS(asset_type) ==
    IF asset_type = "ETH"
    THEN <<"eth_holdings", "staking_pct", "quarterly_burn_usd">>
    ELSE <<"holdings", "quarterly_burn_usd">>

\* the characters of a rule key or a field name
Spelling(name) ==
    CASE name = "holdings" ->
            <<"h", "o", "l", "d", "i", "n", "g", "s">>
      [] name = "burn_rate" ->
            <<"b", "u", "r", "n", "_", "r", "a", "t", "e">>
      [] name = "stock_data" ->
            <<"s", "t", "o", "c", "k", "_", "d", "a", "t", "a">>
      [] name = "crypto_prices" ->
            <<"c", "r", "y", "p", "t", "o", "_", "p", "r", "i", "c", "e", "s">>
      [] name = "eth_holdings" ->
            <<"e", "t", "h", "_", "h", "o", "l", "d", "i", "n", "g", "s">>
      [] name = "staking_pct" ->
            <<"s", "t", "a", "k", "i", "n", "g", "_", "p", "c", "t">>
      [] name = "quarterly_burn_usd" ->
            <<"q", "u", "a", "r", "t", "e", "r", "l", "y", "_", "b", "u", "r", "n", "_", "u", "s", "d">>
      [] name = "shares_outstanding" ->
            <<"s", "h", "a", "r", "e", "s", "_", "o", "u", "t", "s", "t", "a", "n", "d", "i", "n", "g">>

\* rule_key in field: the key occurs in the name as a run of characters
Contains(rule_key, field) ==
    LET a == Spelling(rule_key)
        b == Spelling(field)
    IN  \E i \in 0 .. Len(b) - Len(a) : SubSeq(b, i + 1, i + Len(a)) = a

DefaultMaxAge == 30

RECURSIVE MaxAgeLoop(_, _)
MaxAgeLoop(field, k) ==
    IF k > Len(VALIDATION_RULES) THEN DefaultMaxAge
    ELSE IF Contains(VALIDATION_RULES[k].key, field)
    THEN VALIDATION_RULES[k].max_age_days
    ELSE MaxAgeLoop(field, k + 1)

\* max_age = 30, then the first rule whose key occurs in the field name
max_age(field) == MaxAgeLoop(field, 1)

\* if age_days > max_age / elif age_days > max_age * 0.7 / else
FieldStatus(age_days, limit) ==
    IF age_days > limit THEN "stale"
    ELSE IF 10 * age_days > 7 * limit THEN "warning"
    ELSE "fresh"

\* m[key] = value of a dict
Put(m, key, value) ==
    [k \in DOMAIN m \cup {key} |-> IF k = key THEN value ELSE m[k]]

\* the record log_verification stores; verified_at is the day of the call
VerificationRecord(value, today) ==
    [value |-> value, source |-> "manual", verified_at |-> today]

\* a slip log_verification could have: the ticker's records start afresh
log_verification_FreshRecords(log, ticker, field, record) ==
    Put(log, ticker, Put(<<>>, field, record))

\* the log that log_verification saves
log_verification(log, ticker, field, record) ==
    LET known == IF ticker \in DOMAIN log THEN log ELSE Put(log, ticker, <<>>)
    IN  Put(known, ticker, Put(known[ticker], field, record))

NeverVerified == [status |-> "never_verified", age_days |-> None]

StaleItem(ticker, field, age_days, limit) ==
    [ticker |-> ticker, field |-> field, age_days |-> age_days, max_age |-> limit]

\* for field in fields, of a ticker that is in the log
RECURSIVE FieldLoop(_, _, _, _, _, _)
FieldLoop(ticker, records, today, fields, k, acc) ==
    IF k > Len(fields) THEN acc
    ELSE LET field == fields[k] IN
         IF field \notin DOMAIN records
         THEN FieldLoop(ticker, records, today, fields, k + 1,
                  [acc EXCEPT !.fields = Put(@, field, NeverVerified),
                              !.all_fresh = FALSE,
                              !.stale_items = Append(@, StaleItem(ticker, field, None, None))])
         ELSE LET verified_at == records[field].verified_at
                  age_days == today - verified_at
                  limit == max_age(field)
                  status == FieldStatus(age_days, limit)
                  latest == IF IsNone(acc.latest_verification)
                               \/ verified_at > acc.latest_verification.n
                            THEN Num(verified_at)
                            ELSE acc.latest_verification
              IN  FieldLoop(ticker, records, today, fields, k + 1,
                      [fields |-> Put(acc.fields, field,
                                      [status |-> status, age_days |-> Num(age_days)]),
                       all_fresh |-> acc.all_fresh /\ status # "stale",
                       any_verified |-> TRUE,
                       latest_verification |-> latest,
                       stale_items |-> IF status = "stale"
                                       THEN Append(acc.stale_items,
                                                StaleItem(ticker, field, Num(age_days), Num(limit)))
                                       ELSE acc.stale_items])

\* for asset_type, companies ... for ticker, company ...
RECURSIVE CompanyLoop(_, _, _, _)
CompanyLoop(log, today, k, summary) ==
    IF k > Len(ALL_COMPANIES) THEN summary
    ELSE LET ticker == ALL_COMPANIES[k].ticker
             fields == MONITORED_FIELDS(ALL_COMPANIES[k].asset_type)
             counted == [summary.overall EXCEPT !.total_companies = @ + 1]
         IN  IF ticker \notin DOMAIN log
             THEN CompanyLoop(log, today, k + 1,
                      [overall |-> [counted EXCEPT !.never_verified = @ + 1],
                       companies |-> Put(summary.companies, ticker,
                           [overall_status |-> "never_verified",
                            fields |-> [f \in {fields[i] : i \in DOMAIN fields} |-> NeverVerified],
                            last_verified |-> None]),
                       stale_items |-> summary.stale_items \o
                           [i \in DOMAIN fields |-> StaleItem(ticker, fields[i], None, None)]])
             ELSE LET done == FieldLoop(ticker, log[ticker], today, fields, 1,
                                  [fields |-> <<>>, all_fresh |-> TRUE,
                                   any_verified |-> FALSE, latest_verification |-> None,
                                   stale_items |-> summary.stale_items])
                      overall_status ==
                          IF done.all_fresh /\ done.any_verified THEN "healthy"
                          ELSE IF done.any_verified THEN "stale"
                          ELSE "unknown"
                  IN  CompanyLoop(log, today, k + 1,
                          [overall |->
                               IF overall_status = "healthy"
                               THEN [counted EXCEPT !.verified_companies = @ + 1]
                               ELSE IF overall_status = "stale"
                               THEN [counted EXCEPT !.stale_companies = @ + 1]
                               ELSE counted,
                           companies |-> Put(summary.companies, ticker,
                               [overall_status |-> overall_status,
                                fields |-> done.fields,
                                last_verified |-> done.latest_verification]),
                           stale_items |-> done.stale_items])

get_data_health_summary(log, today) ==
    CompanyLoop(log, today, 1,
        [overall |-> [total_companies |-> 0, verified_companies |-> 0,
                      stale_companies |-> 0, never_verified |-> 0],
         companies |-> <<>>,
         stale_items |-> <<>>])

\* what log_verification is called with
Tickers == {"BMNR", "MSTR"}

Fields == {"eth_holdings", "holdings", "quarterly_burn_usd", "shares_outstanding"}

InitValidation ==
    /\ call = [fn |-> "none"]
    /\ pc = "idle"
    /\ ret = Pending
    /\ attempt = 0
    /\ io = <<>>
    /\ validation_log = <<>>
    /\ now = 0

\* time passes between two calls
Tick ==
    /\ \E day \in Days : day > now /\ now' = day
    /\ UNCHANGED <<call, pc, ret, attempt, io, validation_log>>

\* log_verification(ticker, field, value, source): load, store, save,
\* return; the n-th call verifies the value n
LogVerification ==
    /\ Len(io) < MaxCalls
    /\ \E ticker \in Tickers, field \in Fields :
        LET record == VerificationRecord(Num(Len(io) + 1), now) IN
        /\ call' = [fn |-> "log_verification", ticker |-> ticker, field |-> field]
        /\ validation_log' = log_verification(validation_log, ticker, field, record)
        /\ io' = Append(io, [op |-> "log_verification", ticker |-> ticker,
                             field |-> field, record |-> record])
        /\ ret' = validation_log'[ticker][field]
    /\ pc' = "returned"
    /\ UNCHANGED <<attempt, now>>

GetDataHealthSummary ==
    /\ call' = [fn |-> "get_data_health_summary"]
    /\ ret' = get_data_health_summary(validation_log, now)
    /\ pc' = "returned"
    /\ UNCHANGED <<attempt, io, validation_log, now>>

NextValidation ==
    \/ Tick
    \/ LogVerification
    \/ GetDataHealthSummary

SpecValidation == InitValidation /\ [][NextValidation]_vars

----------------------------------------------------------------------------
\* C11: a company row or a detail view built from a fetched snapshot whose
\* price is absent reports an undefined nav_discount, never a number obtained
\* by reading the missing price as 0.
C11_AbsentPriceUndefinedDiscount ==
    Returned =>
        /\ call.fn = "build_dat_dataframe" =>
                \A i \in DOMAIN ret.rows :
                    IsNone(call.stocks[i].price) => IsNone(ret.rows[i].nav_discount)
        /\ call.fn = "render_dat_detail_page" =>
                (IsNone(ret.stock.price) => IsNone(ret.nav_discount))

\* a detail view of a company with holdings, at a positive ETH price, built
\* when every stock source failed
C11_Witness ==
    /\ Returned
    /\ call.fn = "render_dat_detail_page"
    /\ Gt(call.company.eth_holdings, Num(0))
    /\ Truthy(call.eth_fetched)
    /\ IsNone(ret.stock.price)
    /\ ret.stock_price = Num(0)
    /\ IsNone(ret.nav_discount)

----------------------------------------------------------------------------
\* C12: the health evaluator returns 'unknown' when the indicator is absent
\* and only then: an absent indicator never raises and is never given
\* another status, a present indicator (0 included) is never 'unknown'.
C12_UnknownIffAbsent ==
    Returned =>
        /\ call.fn = "get_health_status" =>
                /\ ~IsExc(ret.exc)
                /\ ret.status = "unknown" <=> IsNone(call.value)
        /\ call.fn = "check_precondition_health" =>
                /\ ret.eth_dominance = "unknown" <=> IsNone(call.eth_dominance)
                /\ ret.eth_yield = "unknown" <=> IsNone(call.eth_staking_apy)
                /\ ret.macro_backdrop = "unknown" <=> IsNone(call.deficit_gdp_ratio)
        /\ call.fn = "render_precondition_health" =>
                /\ ret.health.eth_dominance = "unknown" <=> IsNone(ret.eth_dominance)
                /\ ret.health.eth_yield = "unknown" <=> IsNone(ret.eth_apy)
                /\ ret.health.macro_backdrop = "unknown" <=> IsNone(ret.deficit_gdp)

----------------------------------------------------------------------------
\* a returned get_health_status call on a number
HealthCall ==
    /\ Returned
    /\ call.fn = "get_health_status"
    /\ IsNum(call.value)

\* C13 (as stated): with higher_is_better, healthy when v >= w, warning when
\* c <= v < w, critical when v < c; with lower-is-better, healthy when
\* v <= w, warning when w < v <= c, critical when v > c; exactly one status
\* is returned for every v.
C13_ThresholdSemantics ==
    HealthCall =>
        LET v == call.value
            w == call.warning_threshold
            c == call.critical_threshold
        IN  /\ ret.status \in {"healthy", "warning", "critical"}
            /\ call.higher_is_better =>
                    /\ Ge(v, w) => ret.status = "healthy"
                    /\ Ge(v, c) /\ Lt(v, w) => ret.status = "warning"
                    /\ Lt(v, c) => ret.status = "critical"
            /\ ~call.higher_is_better =>
                    /\ Le(v, w) => ret.status = "healthy"
                    /\ Gt(v, w) /\ Le(v, c) => ret.status = "warning"
                    /\ Gt(v, c) => ret.status = "critical"

\* C13 (amended): the cases are tried in the order healthy, warning,
\* critical: with higher_is_better, healthy when v >= w, warning when
\* c <= v < w, critical when v < c and v < w; with lower-is-better, healthy
\* when v <= w, warning when w < v <= c, critical when v > c and v > w;
\* exactly one status is returned for every number v.
C13_FirstMatchingCase ==
    HealthCall =>
        LET v == call.value
            w == call.warning_threshold
            c == call.critical_threshold
        IN  /\ IsNone(ret.exc)
            /\ ret.status \in {"healthy", "warning", "critical"}
            /\ call.higher_is_better =>
                    /\ Ge(v, w) => ret.status = "healthy"
                    /\ Ge(v, c) /\ Lt(v, w) => ret.status = "warning"
                    /\ Lt(v, c) /\ Lt(v, w) => ret.status = "critical"
            /\ ~call.higher_is_better =>
                    /\ Le(v, w) => ret.status = "healthy"
                    /\ Gt(v, w) /\ Le(v, c) => ret.status = "warning"
                    /\ Gt(v, c) /\ Gt(v, w) => ret.status = "critical"

\* a value on the critical threshold, past the warning threshold, of a
\* lower-is-better indicator: warning
C13_Witness ==
    /\ HealthCall
    /\ ~call.higher_is_better
    /\ Lt(call.warning_threshold, call.critical_threshold)
    /\ call.value = call.critical_threshold
    /\ ret.status = "warning"

----------------------------------------------------------------------------
\* a returned calculate_nav_discount call
DiscountCall ==
    /\ Returned
    /\ call.fn = "calculate_nav_discount"

\* nav_per_share is undefined, zero or negative
NoNavPerShare(nps) == IsNone(nps) \/ Le(nps, Num(0))

\* C14: calculate_nav_discount returns None whenever nav_per_share is
\* undefined, zero or negative, for every stock_price (an absent one too);
\* otherwise it returns the d with d * nav_per_share + nav_per_share =
\* stock_price. A row of a company with zero holdings, or built at a zero
\* asset price, with positive shares has an undefined discount and was built
\* without a division by zero.
C14_DiscountUndefinedOrRatio ==
    /\ DiscountCall =>
            /\ NoNavPerShare(call.nav_per_share) => IsNone(ret)
            /\ ~NoNavPerShare(call.nav_per_share) /\ IsNum(call.stock_price) =>
                    /\ IsNum(ret)
                    /\ PyAdd(PyMul(ret, call.nav_per_share), call.nav_per_share)
                            = call.stock_price
    /\ Returned /\ call.fn = "build_dat_dataframe" =>
            \A i \in DOMAIN call.companies :
                /\ call.companies[i].eth_holdings = Num(0) \/ call.eth_price = Num(0)
                /\ Truthy(call.stocks[i].shares_outstanding)
                /\ Gt(call.stocks[i].shares_outstanding, Num(0))
                => /\ IsNone(ret.exc)
                   /\ ret.rows[i].nav_per_share = Num(0)
                   /\ IsNone(ret.rows[i].nav_discount)

\* a negative nav_per_share with a positive stock price: no discount
C14_Witness ==
    /\ DiscountCall
    /\ Lt(call.nav_per_share, Num(0))
    /\ IsNum(call.stock_price)
    /\ Gt(call.stock_price, Num(0))
    /\ IsNone(ret)

----------------------------------------------------------------------------
\* C15: for every nav_per_share > 0, a stock price below it gives a negative
\* nav_discount, one above it a positive nav_discount, one equal to it
\* exactly 0.
C15_SignConvention ==
    DiscountCall /\ IsNum(call.nav_per_share) /\ Gt(call.nav_per_share, Num(0))
                 /\ IsNum(call.stock_price) =>
        /\ IsNum(ret)
        /\ Lt(call.stock_price, call.nav_per_share) => Lt(ret, Num(0))
        /\ Gt(call.stock_price, call.nav_per_share) => Gt(ret, Num(0))
        /\ call.stock_price = call.nav_per_share => ret = Num(0)

\* a stock trading below a positive nav_per_share: a discount
C15_Witness ==
    /\ DiscountCall
    /\ IsNum(call.nav_per_share)
    /\ IsNum(call.stock_price)
    /\ Gt(call.stock_price, Num(0))
    /\ Lt(call.stock_price, call.nav_per_share)
    /\ IsNum(ret)
    /\ Lt(ret, Num(0))

----------------------------------------------------------------------------
\* a table of another asset's companies was rendered by the call
RenderedSection ==
    /\ Rendered
    /\ call.fn = "render_productivity_section"

\* C16: the yield source is selected by is_miner: the yield of a company
\* with is_miner true is its annual mined production, that of a company with
\* is_miner false is holdings * staking_pct * staking_apy, to which mined
\* production never contributes.
C16_YieldSourceByMinerFlag ==
    RenderedSection =>
        \A i \in DOMAIN ret.prod :
            LET r == ret.prod[i]
                c == CompanyOf(r)
            IN  /\ c.is_miner => r.yield = c.btc_mined_annual
                /\ ~c.is_miner =>
                        r.yield = PyMul(PyMul(c.holdings, c.staking_pct), c.staking_apy)

----------------------------------------------------------------------------
\* C17: whenever the benchmark APY is > 0 the yield multiple is
\* net_rate / benchmark APY (the staking APY of the ETH table and of the
\* other staking assets, the staking yield of an ETF for the ETH table's
\* second multiple); for a pure BTC treasury the multiple is infinite exactly
\* when the total is > 0 and 0 otherwise.
C17_YieldMultiple ==
    Rendered =>
        \A i \in DOMAIN ret.prod :
            LET r == ret.prod[i] IN
            /\ call.fn = "render_dat_table" =>
                    /\ Gt(call.staking_apy, Num(0)) =>
                            PyMul(r.yield_multiple, call.staking_apy) = r.net_rate
                    /\ PyMul(r.vs_etf, ETF_STAKING_YIELD) = r.net_rate
            /\ call.fn = "render_productivity_section" /\ call.asset # "BTC"
                /\ Gt(CompanyOf(r).staking_apy, Num(0)) =>
                    PyMul(r.yield_multiple, CompanyOf(r).staking_apy) = r.net_rate
            /\ call.fn = "render_productivity_section" /\ call.asset = "BTC"
                /\ ~CompanyOf(r).is_miner =>
                    /\ Gt(r.total, Num(0)) => r.yield_multiple = Inf
                    /\ ~Gt(r.total, Num(0)) => r.yield_multiple = Num(0)

\* a pure BTC treasury with a positive total: an infinite multiple
C17_Witness ==
    /\ RenderedSection
    /\ call.asset = "BTC"
    /\ \E i \in DOMAIN ret.prod :
            /\ ~CompanyOf(ret.prod[i]).is_miner
            /\ CompanyOf(ret.prod[i]).btc_mined_annual = Num(0)
            /\ Gt(ret.prod[i].total, Num(0))
            /\ ret.prod[i].yield_multiple = Inf

----------------------------------------------------------------------------
\* C18: the ranking lists the companies in descending order of total, and
\* two companies with equal totals in ascending order of ticker, whatever
\* the order of the registry.
C18_RankingTiesByTicker ==
    Rendered =>
        \A i, j \in DOMAIN ret.prod :
            i < j =>
                \/ Gt(ret.prod[i].total, ret.prod[j].total)
                \/ /\ ret.prod[i].total = ret.prod[j].total
                   /\ ret.prod[i].ticker < ret.prod[j].ticker

----------------------------------------------------------------------------
\* the premium tokens the registry records for the company of a record
FromPremium(record) ==
    IF call.fn = "render_dat_table" THEN CompanyOf(record).eth_from_premium
    ELSE CompanyOf(record).from_premium

\* the company's dat_start_date is less than a month (30.44 days) before
\* today, or after it
YoungerThanAMonth(company) ==
    /\ IsNum(company.days_active)
    /\ Lt(company.days_active, Rat(761, 25))

\* C19: premium annualization never divides by zero and floors the age at
\* one month: months_active >= 1 and years_active >= 1/12 for every start
\* date, also one less than a month ago or in the future; the annualized
\* premium is from_premium / years_active <= 12 * from_premium, with equality
\* for a company younger than one month.
C19_PremiumAnnualization ==
    /\ Returned /\ call.fn \in {"render_dat_table", "render_productivity_section"} =>
            ret.exc # ZeroDivisionError
    /\ Rendered =>
            \A i \in DOMAIN ret.prod :
                LET r == ret.prod[i] IN
                /\ call.fn = "render_dat_table" => Ge(r.months_active, Num(1))
                /\ Ge(r.years_active, Rat(1, 12))
                /\ PyMul(r.premium, r.years_active) = FromPremium(r)
                /\ Le(r.premium, PyMul(Num(12), FromPremium(r)))
                /\ YoungerThanAMonth(CompanyOf(r)) =>
                        r.premium = PyMul(Num(12), FromPremium(r))

\* a company with premium tokens whose start date lies in the future
C19_Witness ==
    /\ Rendered
    /\ call.fn = "render_dat_table"
    /\ \E i \in DOMAIN ret.prod :
            /\ Lt(CompanyOf(ret.prod[i]).days_active, Num(0))
            /\ IsNum(CompanyOf(ret.prod[i]).days_active)
            /\ Gt(FromPremium(ret.prod[i]), Num(0))
            /\ ret.prod[i].months_active = Num(1)
            /\ ret.prod[i].premium = PyMul(Num(12), FromPremium(ret.prod[i]))

----------------------------------------------------------------------------
\* the columns of a productivity record that the table holds (years_active
\* is a local of the loop)
ColumnsOf(record) ==
    [column \in DOMAIN record \ {"years_active"} |-> record[column]]

\* what an evaluation hands to the page: the exception, or the rows
TableOf(out) ==
    [rendered |-> out.rendered, exc |-> out.exc,
     prod |-> [i \in DOMAIN out.prod |-> ColumnsOf(out.prod[i])]]

\* C20: a calculator is a function of its explicit inputs alone: two
\* evaluations of a productivity table on the same registry, prices and
\* snapshots return the same table, whatever the day each of them runs on.
C20_SameInputsSameOutput ==
    Returned => TableOf(ret[1].out) = TableOf(ret[2].out)

----------------------------------------------------------------------------
(* Claims about fetch_stock_data                                           *)

\* the number of requests sent to a source so far
RequestsTo(source) ==
    Cardinality({k \in DOMAIN io : io[k].op = "request" /\ io[k].source = source})

\* C21: fetch_stock_data always terminates: Yahoo is asked at most
\* MAX_RETRIES times and each fallback source at most once, and the call
\* returns a snapshot with a price or, when every source failed, the marker
\* with an absent price and an error field; it never raises.
C21_FetchTerminates ==
    /\ <>Returned
    /\ [](/\ RequestsTo("yahoo") <= MAX_RETRIES
          /\ RequestsTo("fmp") <= 1
          /\ RequestsTo("alpha_vantage") <= 1
          /\ Returned => (HasPrice(ret) \/ (IsNone(ret.price) /\ ret.error)))

\* every source failed: Yahoo MAX_RETRIES times, the two others once
C21_Witness ==
    /\ Returned
    /\ call.fn = "fetch_stock_data"
    /\ RequestsTo("yahoo") = MAX_RETRIES
    /\ RequestsTo("fmp") = 1
    /\ RequestsTo("alpha_vantage") = 1
    /\ IsNone(ret.price)
    /\ ret.error

----------------------------------------------------------------------------
\* a returned calculate_portfolio_metrics call
PortfolioCall ==
    /\ Returned
    /\ call.fn = "calculate_portfolio_metrics"

\* the price of a position: 0 when the ticker has no snapshot or the
\* snapshot no price
KnownPrice(stock) == IF IsNum(stock.price) THEN stock.price ELSE Num(0)

\* C22: total_value is the sum over all positions of shares * price, a
\* position with an unknown price contributing 0, and every position's
\* reported value is its own shares * price.
C22_TotalValueIsSumOfPositions ==
    PortfolioCall =>
        /\ DOMAIN ret.positions = DOMAIN call.positions
        /\ \A i \in DOMAIN call.positions :
                /\ ret.positions[i].value =
                        PyMul(call.positions[i].shares, KnownPrice(call.stocks[i]))
                /\ ~IsNum(call.stocks[i].price) => ret.positions[i].value = Num(0)
        /\ ret.total_value =
                SumOf([i \in DOMAIN call.positions |->
                        PyMul(call.positions[i].shares, KnownPrice(call.stocks[i]))])

\* a priced and an unpriced position, both with shares and without cost
\* basis
C22_Witness ==
    /\ PortfolioCall
    /\ Gt(ret.total_value, Num(0))
    /\ \E i, j \in DOMAIN call.positions :
            /\ Gt(call.positions[i].shares, Num(0))
            /\ Gt(call.positions[j].shares, Num(0))
            /\ IsNone(call.positions[i].cost_basis)
            /\ IsNone(call.positions[j].cost_basis)
            /\ IsNum(call.stocks[i].price)
            /\ IsNone(call.stocks[j].price)

----------------------------------------------------------------------------
\* a returned call of one of the two compact currency formatters on a number
FormatCall ==
    /\ Returned
    /\ call.fn \in {"format_large_number", "other_dats.format_large_number"}
    /\ IsNum(call.value)

\* C23: the compact currency formatter chooses its suffix by magnitude with
\* inclusive lower boundaries: B from 10^9, M from 10^6 to below 10^9, K from
\* 10^3 to below 10^6, no suffix below 10^3.
C23_SuffixByMagnitude ==
    FormatCall =>
        LET magnitude == AbsInt(call.value.n) IN
        /\ magnitude >= 1000000000 => ret.suffix = "B"
        /\ magnitude >= 1000000 /\ magnitude < 1000000000 => ret.suffix = "M"
        /\ magnitude >= 1000 /\ magnitude < 1000000 => ret.suffix = "K"
        /\ magnitude < 1000 => ret.suffix = ""

\* exactly one thousand dollars: "$1K" / "$1.00K"
C23_Witness ==
    /\ FormatCall
    /\ call.value = Num(1000)
    /\ ret.suffix = "K"
    /\ ret.mantissa = Pow10(ret.decimals)

----------------------------------------------------------------------------
\* the waits of the run so far, in order
Waits == SelectSeq(io, LAMBDA e : e.op = "sleep")

\* C24: the delay between consecutive retry attempts of a failing stock
\* fetch is fixed: every retry waits the same interval, whatever the attempt
\* number, and no wait follows the last attempt.
C24_FixedBackoff ==
    /\ \A i, j \in DOMAIN Waits : Waits[i].seconds = Waits[j].seconds
    /\ \A i \in DOMAIN io :
           io[i].op = "sleep" => Len(SelectSeq(SubSeq(io, 1, i), LAMBDA e : e.op = "request")) < MAX_RETRIES

----------------------------------------------------------------------------
\* the place of a source in the order Yahoo, FMP, Alpha Vantage
Rank(source) == IF source = "yahoo" THEN 1 ELSE IF source = "fmp" THEN 2 ELSE 3

Requests == {k \in DOMAIN io : io[k].op = "request"}

Priced == {k \in Requests : HasPrice(io[k].answer)}

\* C25: fetch_stock_data consults its sources in the order Yahoo, FMP, Alpha
\* Vantage; a later source is asked only after every earlier one was asked
\* and failed, no source is asked after a success, and the call returns the
\* result of the first source that yields a present price.
C25_SourceOrder ==
    /\ \A i, j \in Requests : i < j => Rank(io[i].source) <= Rank(io[j].source)
    /\ \A j \in Requests : \A r \in 1 .. Rank(io[j].source) - 1 :
           /\ \E i \in Requests : i < j /\ Rank(io[i].source) = r
           /\ \A i \in Requests : Rank(io[i].source) = r => ~HasPrice(io[i].answer)
    /\ \A i \in Priced : i = Len(io)
    /\ Returned => IF Priced = {} THEN ret = Unavailable
                   ELSE \A i \in Priced : ret = io[i].answer

\* Yahoo and FMP fail and Alpha Vantage answers with a price
C25_Witness ==
    /\ Returned
    /\ call.fn = "fetch_stock_data"
    /\ ret.source = "alpha_vantage"
    /\ HasPrice(ret)
    /\ RequestsTo("yahoo") = MAX_RETRIES
    /\ RequestsTo("fmp") = 1

----------------------------------------------------------------------------
\* get_data_health_summary has returned its summary
SummaryReturned == Returned /\ call.fn = "get_data_health_summary"

\* C26: for every validation log the counters of get_data_health_summary
\* partition the monitored companies: verified_companies + stale_companies
\* + never_verified = total_companies, and every company's overall_status is
\* one of healthy, stale, never_verified.
C26_CountersPartition ==
    SummaryReturned =>
        /\ ret.overall.verified_companies + ret.overall.stale_companies
               + ret.overall.never_verified = ret.overall.total_companies
        /\ \A t \in DOMAIN ret.companies :
               ret.companies[t].overall_status \in {"healthy", "stale", "never_verified"}

\* the verified fields of the summary with the given names
VerifiedFields(names) ==
    {<<t, f>> \in Tickers \X names :
        /\ t \in DOMAIN ret.companies
        /\ f \in DOMAIN ret.companies[t].fields
        /\ ret.companies[t].fields[f].status # "never_verified"}

StaleOver(pair, days) ==
    LET field == ret.companies[pair[1]].fields[pair[2]]
    IN  field.status = "stale" <=> field.age_days.n > days

\* C27: in get_data_health_summary a verified burn field (quarterly_burn_usd)
\* is stale only when older than the burn-rate rule's 90 days, while a
\* holdings field is stale when older than 30 days.
C27_BurnFieldNinetyDays ==
    SummaryReturned =>
        /\ \A pair \in VerifiedFields({"quarterly_burn_usd"}) : StaleOver(pair, 90)
        /\ \A pair \in VerifiedFields({"holdings", "eth_holdings"}) : StaleOver(pair, 30)

\* the calls of log_verification so far for a ticker and a field
CallsFor(ticker, field) ==
    {k \in DOMAIN io : io[k].op = "log_verification"
                        /\ io[k].ticker = ticker /\ io[k].field = field}

LastOf(S) == CHOOSE k \in S : \A j \in S : j <= k

\* C28: log_verification(ticker, field, ...) changes only the record of that
\* ticker and field: after any sequence of calls the log holds, for each
\* verified pair, exactly the record of its most recent call, and nothing
\* for a pair that was never verified.
C28_LogHoldsLatestRecords ==
    \A t \in Tickers, f \in Fields :
        IF CallsFor(t, f) = {}
        THEN t \notin DOMAIN validation_log \/ f \notin DOMAIN validation_log[t]
        ELSE /\ t \in DOMAIN validation_log
             /\ f \in DOMAIN validation_log[t]
             /\ validation_log[t][f] = io[LastOf(CallsFor(t, f))].record

\* a pair verified twice with different records next to another field of
\* the same ticker
C28_Witness ==
    /\ Len(io) = 3
    /\ io[1].op = "log_verification"
    /\ io[1].ticker = io[2].ticker /\ io[1].field # io[2].field
    /\ io[3].ticker = io[2].ticker /\ io[3].field = io[2].field
    /\ io[3].record # io[2].record
    /\ validation_log[io[1].ticker][io[1].field] = io[1].record
    /\ validation_log[io[3].ticker][io[3].field] = io[3].record

----------------------------------------------------------------------------
\* check_precondition_health has returned
PreconditionCall == Returned /\ call.fn = "check_precondition_health"

\* C29: check_precondition_health gives each present indicator the status
\* get_health_status gives it with that indicator's thresholds: dominance
\* with warning 0.50 / critical 0.40 and staking APY with warning 0.03 /
\* critical 0.02 (higher is better), deficit/GDP with warning -3 / critical 0
\* (lower is better), the threshold values themselves included.
C29_SameAsThresholdEvaluator ==
    PreconditionCall =>
        /\ ~IsNone(call.eth_dominance) =>
               ret.eth_dominance =
                   get_health_status(call.eth_dominance, Rat(1, 2), Rat(2, 5), TRUE).status
        /\ ~IsNone(call.eth_staking_apy) =>
               ret.eth_yield =
                   get_health_status(call.eth_staking_apy, Rat(3, 100), Rat(1, 50), TRUE).status
        /\ ~IsNone(call.deficit_gdp_ratio) =>
               ret.macro_backdrop =
                   get_health_status(call.deficit_gdp_ratio, Num(-3), Num(0), FALSE).status

----------------------------------------------------------------------------
\* calculate_treasury_value_change has returned
TreasuryCall == Returned /\ call.fn = "calculate_treasury_value_change"

\* current_eth * current_price - previous_eth * previous_price, as computed
ValueDifference ==
    FloatSub(FloatMul(call.current_eth, call.current_price),
             FloatMul(call.previous_eth, call.previous_price))

\* C30 as stated: calculate_treasury_value_change decomposes exactly:
\* price_effect + accumulation_effect = total_change = current_eth *
\* current_price - previous_eth * previous_price for all holdings and prices.
C30_DecomposesExactly ==
    TreasuryCall =>
        /\ ret.total_change = ValueDifference
        /\ FloatAdd(ret.price_effect, ret.accumulation_effect) = ret.total_change

\* the rounding error the eight operations can add up to: 2^(3 - Precision)
\* times the sum of the sizes of the products involved
RoundingAllowance ==
    PyMul(Rat(8, Pow2(Precision)),
          PyAdd(PyAbs(PyMul(call.current_eth, call.current_price)),
                PyAdd(PyAbs(PyMul(call.previous_eth, call.previous_price)),
                      PyAbs(PyMul(call.previous_eth, call.current_price)))))

DecompositionError ==
    PyAbs(PySub(FloatAdd(ret.price_effect, ret.accumulation_effect), ret.total_change))

\* C30: calculate_treasury_value_change decomposes up to floating-point
\* rounding: total_change is current_eth * current_price - previous_eth *
\* previous_price as computed, and price_effect + accumulation_effect
\* differs from it by rounding error only.
C30_DecomposesUpToRounding ==
    TreasuryCall =>
        /\ ret.total_change = ValueDifference
        /\ Le(DecompositionError, RoundingAllowance)

\* holdings grow and the price moves, and the two sides differ in the last
\* digit
C30_Witness ==
    /\ TreasuryCall
    /\ Gt(call.current_eth, call.previous_eth)
    /\ call.current_price # call.previous_price
    /\ Truthy(DecompositionError)
    /\ Le(DecompositionError, RoundingAllowance)

====
